---- MODULE Spec2Model ----
(***************************************************************************)
(* URL shortener: short-code generation, the in-process URL cache, the     *)
(* redirect resolver and the URL registry, over a durable store with a     *)
(* unique index on shortCode.                                              *)
(*                                                                         *)
(* Time is counted in whole hours.  Every request handler is a process     *)
(* that moves from one await to the next; a step is either the store       *)
(* executing the request the handler issued, or the handler's continuation *)
(* after the store answered.                                               *)
(***************************************************************************)
EXTENDS Integers, Sequences, FiniteSets, TLC

\* ------------------------------------------------------------------ bounds
MaxTime == 1
MaxOps == 2
\* The cache on its own: a small capacity, so that it fills, and a longer clock.
TestMaxSize == 2
MaxCacheOps == 5
MaxCacheTime == 3
MaxAllOps == 3
\* Click recordings made one after the other on a document with a long history.
MaxClickOps == 3
\* The rate limiter on its own: the clock steps of a run, and the requests
\* counted beyond max in a window.
MaxRateTicks == 3
MaxOver == 2
\* the cleanup scheduler on its own: hours of clock
MaxSweepTime == 2
\* the OTP store on its own: calls made, clock steps
MaxOtpOps == 7
MaxOtpTicks == 2

\* --------------------------------------------------------- program constants
shortCodeLength == 6
maxRetries == 5
CacheMaxSize == 1000
CacheTtl == 1
GUEST_URL_EXPIRY_DAYS == 7
clickHistoryLimit == 100
\* config.rateLimit, the windows in minutes.
AuthWindow == 15
AuthMax == 10
UrlWindow == 1
UrlMax == 30
GuestWindow == 1
GuestMax == 10
\* otpService: an OTP lives 10 minutes and allows 5 verify attempts
OtpLifetime == 10
OtpMaxAttempts == 5

\* A missing value: null / undefined of the source.
NoDate == 0 - 1
NoId == "null"
NoSlug == << >>

\* ------------------------------------------------------------ short codes
ALPHABET ==
  << "a","b","c","d","e","f","g","h","i","j","k","l","m",
     "n","o","p","q","r","s","t","u","v","w","x","y","z",
     "A","B","C","D","E","F","G","H","I","J","K","L","M",
     "N","O","P","Q","R","S","T","U","V","W","X","Y","Z",
     "0","1","2","3","4","5","6","7","8","9" >>

\* The byte strings crypto.randomBytes(n) is sampled from: all bytes 0 but the
\* last, which is one of three values (0 and 62 map to the same character).
ByteSamples == {0, 1, 62}

randomBytes(n) == { [i \in 1..n |-> IF i = n THEN b ELSE 0] : b \in ByteSamples }

\* The code generateShortCode builds from the drawn bytes.
CodeOfBytes(bytes) ==
  [i \in 1..Len(bytes) |-> ALPHABET[(bytes[i] % Len(ALPHABET)) + 1]]

\* Every code generateShortCode(length) can return.
generateShortCode(length) == { CodeOfBytes(bs) : bs \in randomBytes(length) }

SlugChars == { ALPHABET[i] : i \in 1..Len(ALPHABET) } \cup {"_", "-"}

isValidSlug(slug) ==
  /\ Len(slug) >= 1
  /\ \A i \in 1..Len(slug) : slug[i] \in SlugChars
  /\ Len(slug) >= 3
  /\ Len(slug) <= 50

\* ------------------------------------------------------------------- URLs
\* A URL string as new URL(string) sees it: <<protocol, rest>>; protocol ""
\* when the string does not parse.
UrlA == <<"https:", "a.example">>
UrlB == <<"http:", "b.example">>
UrlFtp == <<"ftp:", "c.example">>
UrlBad == <<"", "not a url">>

isValidUrl(string) == string[1] = "http:" \/ string[1] = "https:"


\* ------------------------------------------------------------- documents
\* A Url document (models/Url.js); createdAt is the timestamps option.
NoDoc ==
  [ id |-> 0, shortCode |-> NoSlug, originalUrl |-> <<"", "">>, customSlug |-> NoSlug,
    userId |-> NoId, guestId |-> NoId, clicks |-> 0, clickHistory |-> << >>,
    isActive |-> FALSE, expiresAt |-> NoDate, createdAt |-> NoDate ]

\* new Url({...}) in createUrl, with the schema defaults.
NewUrl(id, originalUrl, shortCode, customSlug, userId, guestId, expiresAt, t) ==
  [ id |-> id, shortCode |-> shortCode, originalUrl |-> originalUrl,
    customSlug |-> customSlug, userId |-> userId, guestId |-> guestId,
    clicks |-> 0, clickHistory |-> << >>, isActive |-> TRUE,
    expiresAt |-> expiresAt, createdAt |-> t ]

\* getGuestUrlExpirationDate at clock t: seven calendar days later, in hours.
getGuestUrlExpirationDate(t) == t + GUEST_URL_EXPIRY_DAYS * 24

\* createUrl, "Determine expiration".
AlwaysCallerExpiration(userId, guestId, expiresAt, t) ==
  IF expiresAt # NoDate THEN expiresAt
  ELSE IF guestId # NoId /\ userId = NoId THEN getGuestUrlExpirationDate(t)
  ELSE NoDate

urlExpiration(userId, guestId, expiresAt, t) ==
  IF guestId # NoId /\ userId = NoId THEN getGuestUrlExpirationDate(t)
  ELSE IF userId # NoId /\ expiresAt # NoDate THEN expiresAt
  ELSE NoDate

\* ------------------------------------------------------------ the store
\* The queries the services send, each executed atomically by the store.
\* Url.findOne({ shortCode })
FindNothing(st, code) == NoDoc

FindOne(st, code) ==
  IF \E r \in st : r.shortCode = code
  THEN CHOOSE r \in st : r.shortCode = code
  ELSE NoDoc

\* Url.findOne({ shortCode, userId })
FindOneOfAnyUser(st, code, userId) ==
  IF \E r \in st : r.shortCode = code
  THEN CHOOSE r \in st : r.shortCode = code
  ELSE NoDoc

FindOneOfUser(st, code, userId) ==
  IF \E r \in st : r.shortCode = code /\ r.userId = userId
  THEN CHOOSE r \in st : r.shortCode = code /\ r.userId = userId
  ELSE NoDoc

\* Url.findOne({ shortCode, guestId })
FindOneOfGuest(st, code, guestId) ==
  IF \E r \in st : r.shortCode = code /\ r.guestId = guestId
  THEN CHOOSE r \in st : r.shortCode = code /\ r.guestId = guestId
  ELSE NoDoc

\* Url.findByShortCode: findOne({ shortCode, isActive: true })
findByShortCode(st, code) ==
  IF \E r \in st : r.shortCode = code /\ r.isActive
  THEN CHOOSE r \in st : r.shortCode = code /\ r.isActive
  ELSE NoDoc

\* Url.exists({ shortCode: code })
Exists(st, code) == \E r \in st : r.shortCode = code

\* The unique index on shortCode: an insert of a present code is refused (E11000).
NoUniqueIndex(st, doc) == FALSE

DuplicateKey(st, doc) == \E r \in st : r.shortCode = doc.shortCode

\* save() of a document loaded earlier: $set of the changed paths where _id
\* matches; nothing matches when the document was removed meanwhile.
HasId(st, id) == \E r \in st : r.id = id

ById(st, id) == CHOOSE r \in st : r.id = id

\* expiresAt: { $lt: new Date() }
Expired(r, t) == r.expiresAt # NoDate /\ r.expiresAt < t

\* ------------------------------------------------------------- UrlCache
NoData == [ originalUrl |-> <<"", "">>, shortCode |-> NoSlug, id |-> 0 ]

CacheKeys(c) == { c[i].key : i \in 1..Len(c) }

CacheIndex(c, key) == CHOOSE i \in 1..Len(c) : c[i].key = key

CacheEntry(c, key) == c[CacheIndex(c, key)]

CacheDelete(c, key) == SelectSeq(c, LAMBDA e : e.key # key)

\* UrlCache.get: the cache afterwards and the data returned (NoData for null).
GetIgnoringExpiry(c, key, t) ==
  IF key \notin CacheKeys(c) THEN [ cache |-> c, data |-> NoData ]
  ELSE [ cache |-> [ c EXCEPT ![CacheIndex(c, key)] =
                       [ @ EXCEPT !.hits = @ + 1, !.lastAccess = t ] ],
         data |-> CacheEntry(c, key).data ]

cacheGet(c, key, t) ==
  IF key \notin CacheKeys(c) THEN [ cache |-> c, data |-> NoData ]
  ELSE IF t > CacheEntry(c, key).expiresAt
       THEN [ cache |-> CacheDelete(c, key), data |-> NoData ]
       ELSE [ cache |-> [ c EXCEPT ![CacheIndex(c, key)] =
                              [ @ EXCEPT !.hits = @ + 1, !.lastAccess = t ] ],
              data |-> CacheEntry(c, key).data ]

\* UrlCache.evictLeastUsed: the first entry, in Map order, with the least lastAccess.
EvictFirstInserted(c) ==
  IF Len(c) = 0 THEN c ELSE CacheDelete(c, c[1].key)

evictLeastUsed(c) ==
  IF Len(c) = 0 THEN c
  ELSE LET k == CHOOSE i \in 1..Len(c) :
                  /\ \A j \in 1..Len(c) : c[i].lastAccess <= c[j].lastAccess
                  /\ \A j \in 1..(i - 1) : c[j].lastAccess > c[i].lastAccess
       IN  CacheDelete(c, c[k].key)

\* UrlCache.set
SetWithoutEvicting(c, key, data, t, cap, life) ==
  LET e == [ key |-> key, data |-> data, expiresAt |-> t + life,
             hits |-> 1, lastAccess |-> t ]
  IN  IF key \in CacheKeys(c)
      THEN [ c EXCEPT ![CacheIndex(c, key)] = e ]
      ELSE Append(c, e)

cacheSet(c, key, data, t, cap, life) ==
  LET c1 == IF Len(c) >= cap THEN evictLeastUsed(c) ELSE c
      e  == [ key |-> key, data |-> data, expiresAt |-> t + life,
              hits |-> 1, lastAccess |-> t ]
  IN  IF key \in CacheKeys(c1)
      THEN [ c1 EXCEPT ![CacheIndex(c1, key)] = e ]
      ELSE Append(c1, e)

\* UrlCache.invalidate
KeepEntry(c, key) == c

invalidate(c, key) == CacheDelete(c, key)

\* UrlCache.cleanup
CleanupFirstOnly(c, t) ==
  IF \E i \in 1..Len(c) : t > c[i].expiresAt
  THEN CacheDelete(c, c[CHOOSE i \in 1..Len(c) :
                          /\ t > c[i].expiresAt
                          /\ \A j \in 1..(i - 1) : ~(t > c[j].expiresAt)].key)
  ELSE c

CleanupKeepsAll(c, t) == c

cleanup(c, t) == SelectSeq(c, LAMBDA e : ~(t > e.expiresAt))

\* UrlCache.clear
clear(c) == << >>

\* -------------------------------------------------------------- state
VARIABLES
  store,      \* the Url collection: a set of documents
  users,      \* ids of the User documents
  guests,     \* the Guest collection
  cache,      \* UrlCache.cache: entries in Map insertion order
  maxSize,    \* UrlCache.maxSize
  ttl,        \* UrlCache.ttl
  now,        \* the clock
  nextId,     \* source of fresh _id values
  proc,       \* the request handlers in flight
  nOps,       \* operations started so far
  gen,        \* a stand-alone generateUniqueShortCode call against a fixed set
  pending,    \* the recordClick calls redirectUrl made and did not await
  rateLimitStore,  \* the rate limiters' Map: key -> [count, resetTime]
  limiter,    \* the rate limiter the requests pass through, and its clock steps
  served,     \* per key: the start of its window and the requests passed on since
  sched,      \* the cleanup service: its interval, the runCleanup call in progress
  cleanupInterval,  \* UrlCache.cleanupInterval: TRUE while the timer is set
  otpStore    \* otpService's Map: email -> [otp, expiresAt, attempts, userData]

rateVars == <<rateLimitStore, limiter, served>>

auxVars == <<sched, cleanupInterval, otpStore>>

vars ==
  <<store, users, guests, cache, maxSize, ttl, now, nextId, proc, nOps, gen, pending,
    rateVars, auxVars>>

\* ------------------------------------------------------------- inputs
Users == {"u1", "u2"}
Guests == {"g1"}
Procs == {"p1", "p2"}

SlugPromo == <<"p", "r", "o", "m", "o">>
SlugShort == <<"a", "b">>
SlugBang == <<"a", "b", "!">>
SlugGen == <<"a", "a", "a", "a", "a", "a">>

\* The arguments createUrl is called with.
CreateInputs ==
  { [ url |-> UrlA, slug |-> s, user |-> "u1", guest |-> NoId, exp |-> e ] :
      s \in {NoSlug, SlugPromo}, e \in {NoDate, 0} }
  \cup { [ url |-> UrlA, slug |-> SlugPromo, user |-> NoId, guest |-> "g1", exp |-> e ] :
      e \in {NoDate, 0} }
  \cup { [ url |-> UrlB, slug |-> SlugGen, user |-> "u2", guest |-> NoId, exp |-> NoDate ],
         [ url |-> UrlFtp, slug |-> NoSlug, user |-> "u1", guest |-> NoId, exp |-> NoDate ],
         [ url |-> UrlBad, slug |-> NoSlug, user |-> "u1", guest |-> NoId, exp |-> NoDate ],
         [ url |-> UrlA, slug |-> SlugShort, user |-> "u1", guest |-> NoId, exp |-> NoDate ],
         [ url |-> UrlA, slug |-> SlugBang, user |-> "u1", guest |-> NoId, exp |-> NoDate ] }

\* The codes requests name.
RequestCodes == {SlugPromo, SlugGen}

\* The updates object of updateUrl: the keys it has and their values.
NoUpd ==
  [ keys |-> {}, originalUrl |-> <<"", "">>, isActive |-> FALSE,
    expiresAt |-> NoDate, shortCode |-> NoSlug, customSlug |-> NoSlug,
    userId |-> NoId, clicks |-> 0 ]

UpdateInputs ==
  { [ NoUpd EXCEPT !.keys = {"originalUrl"}, !.originalUrl = UrlB ],
    [ NoUpd EXCEPT !.keys = {"isActive"}, !.isActive = FALSE ],
    [ NoUpd EXCEPT !.keys = {"expiresAt"}, !.expiresAt = 0 ],
    [ NoUpd EXCEPT !.keys = {"expiresAt"}, !.expiresAt = NoDate ],
    [ NoUpd EXCEPT !.keys = {"shortCode", "originalUrl"}, !.shortCode = SlugGen,
                   !.originalUrl = UrlB ],
    [ NoUpd EXCEPT !.keys = {"customSlug", "userId", "clicks"}, !.customSlug = SlugGen,
                   !.userId = "u2", !.clicks = 7 ] }

\* ------------------------------------------------------------- processes
Idle ==
  [ op |-> "none", pc |-> "idle", url |-> <<"", "">>, slug |-> NoSlug,
    user |-> NoId, guest |-> NoId, exp |-> NoDate, upd |-> NoUpd,
    code |-> NoSlug, exists |-> FALSE, i |-> 0, warns |-> 0, mig |-> NoId,
    pw |-> FALSE, doc |-> NoDoc, data |-> NoData, n |-> 0,
    codes |-> {}, setAt |-> << >>, kind |-> "none", msg |-> "" ]

\* A stand-alone generateUniqueShortCode call: its checkExists answers from `existing`.
IdleGen ==
  [ existing |-> {}, pc |-> "loop", code |-> NoSlug, exists |-> FALSE,
    i |-> 0, warns |-> 0 ]

\* config.rateLimit with the key prefix of each pre-configured limiter.
authLimiter == [ name |-> "auth", windowMs |-> AuthWindow, max |-> AuthMax, ticks |-> 0 ]
urlLimiter == [ name |-> "url", windowMs |-> UrlWindow, max |-> UrlMax, ticks |-> 0 ]
guestLimiter == [ name |-> "guest", windowMs |-> GuestWindow, max |-> GuestMax, ticks |-> 0 ]

\* rateLimitStore = new Map(), no request counted.
RateIdle ==
  /\ rateLimitStore = << >>
  /\ limiter = authLimiter
  /\ served = << >>

\* The cleanup service before startCleanupScheduler: cleanupInterval = null, no
\* runCleanup call made.  `due` says the interval's hourly callback is to fire;
\* `caught` counts the store failures the tasks caught.
SchedIdle ==
  [ interval |-> FALSE, alive |-> TRUE, pc |-> "idle", due |-> FALSE,
    expiredUrls |-> 0, oldGuests |-> 0, runs |-> 0, caught |-> 0 ]

\* The cleanup scheduler not started, the cache's timer set by the UrlCache
\* constructor, otpStore = new Map().
AuxIdle ==
  /\ sched = SchedIdle
  /\ cleanupInterval = TRUE
  /\ otpStore = << >>

\* The stores the specifications start from: empty, or holding the one document
\* an earlier createUrl call, made at clock 0 with one of these arguments, saved.
EarlierCreates ==
  { a \in CreateInputs : isValidUrl(a.url) /\ a.slug = SlugPromo }

StoreAfter(a) ==
  { NewUrl(1, a.url, a.slug, a.slug, a.user, a.guest,
           urlExpiration(a.user, a.guest, a.exp, 0), 0) }

Init ==
  /\ \/ store = {} /\ nextId = 1
     \/ \E a \in EarlierCreates : store = StoreAfter(a) /\ nextId = 2
  /\ users = Users
  /\ guests = { [ guestId |-> g, migratedToUserId |-> NoId ] : g \in Guests }
  /\ cache = << >>
  /\ maxSize = CacheMaxSize
  /\ ttl = CacheTtl
  /\ now = 0
  /\ proc = [ p \in Procs |-> Idle ]
  /\ nOps = 0
  /\ gen = IdleGen
  /\ pending = {}
  /\ RateIdle
  /\ AuxIdle

Available(p) == proc[p].pc \in {"idle", "done"} /\ nOps < MaxOps

Done(q, kind, msg) == [ q EXCEPT !.pc = "done", !.kind = kind, !.msg = msg ]

\* ------------------------------------------------ generateUniqueShortCode
\* One pass of the loop body after checkExists answered for the drawn code:
\* return it, or warn and count the retry.
AcceptAnyCode(g) ==
  [ g EXCEPT !.pc = "returned" ]

RetryWithoutLimit(g) ==
  IF ~g.exists
  THEN [ g EXCEPT !.pc = "returned" ]
  ELSE [ g EXCEPT !.warns = @ + 1, !.pc = "loop" ]

AfterCheck(g) ==
  IF ~g.exists
  THEN [ g EXCEPT !.pc = "returned" ]
  ELSE [ g EXCEPT !.warns = @ + 1, !.i = @ + 1,
                  !.pc = IF g.i + 1 < maxRetries THEN "loop" ELSE "fallback" ]

\* The loop draws a code and asks checkExists.
GenDraw ==
  /\ gen.pc = "loop"
  /\ gen.i < maxRetries
  /\ \E c \in generateShortCode(shortCodeLength) :
       gen' = AfterCheck([ gen EXCEPT !.code = c, !.exists = (c \in gen.existing) ])
  /\ UNCHANGED <<store, users, guests, cache, maxSize, ttl, now, nextId, proc, nOps, pending, rateVars, auxVars>>

\* All retries collided: one more code, two characters longer, unchecked.
GenFallback ==
  /\ gen.pc = "fallback"
  /\ \E c \in generateShortCode(shortCodeLength + 2) :
       gen' = [ gen EXCEPT !.code = c, !.pc = "returned" ]
  /\ UNCHANGED <<store, users, guests, cache, maxSize, ttl, now, nextId, proc, nOps, pending, rateVars, auxVars>>

InitGen ==
  /\ store = {}
  /\ users = Users
  /\ guests = { [ guestId |-> g, migratedToUserId |-> NoId ] : g \in Guests }
  /\ cache = << >>
  /\ maxSize = CacheMaxSize
  /\ ttl = CacheTtl
  /\ now = 0
  /\ nextId = 1
  /\ proc = [ p \in Procs |-> Idle ]
  /\ nOps = 0
  /\ \E ex \in SUBSET (generateShortCode(shortCodeLength)
                         \cup generateShortCode(shortCodeLength + 2) \cup {SlugPromo}) :
       gen = [ IdleGen EXCEPT !.existing = ex ]
  /\ pending = {}
  /\ RateIdle
  /\ AuxIdle

NextGen == GenDraw \/ GenFallback

SpecGen == InitGen /\ [][NextGen]_vars

\* The same with checkExists always answering and the call's continuation then run.
SpecGenFair == SpecGen /\ WF_vars(NextGen)

\* ------------------------------------------------------------- createUrl
\* The document createUrl builds once it has its short code (clock t, fresh id).
BuildUrl(q, shortCode, id, t) ==
  NewUrl(id, q.url, shortCode, q.slug, q.user, q.guest,
         urlExpiration(q.user, q.guest, q.exp, t), t)

\* The call up to its first await: validation, then either the slug lookup or
\* the first drawn code's existence check, as the store answers it.
CreateStart(p, in) ==
  /\ Available(p)
  /\ \E a \in in.creates :
       /\ a.user \in users \cup {NoId}
       /\ LET q == [ Idle EXCEPT !.op = "create", !.url = a.url, !.slug = a.slug,
                                 !.user = a.user, !.guest = a.guest, !.exp = a.exp ]
          IN  IF ~isValidUrl(a.url)
              THEN proc' = [ proc EXCEPT ![p] = Done(q, "BAD_REQUEST", "Invalid URL format") ]
              ELSE IF a.slug # NoSlug
              THEN IF ~isValidSlug(a.slug)
                   THEN proc' = [ proc EXCEPT ![p] =
                                    Done(q, "BAD_REQUEST", "Invalid slug format") ]
                   ELSE proc' = [ proc EXCEPT ![p] =
                                    [ q EXCEPT !.pc = "c_found",
                                               !.doc = FindOne(store, a.slug) ] ]
              ELSE \E c \in generateShortCode(shortCodeLength) :
                     proc' = [ proc EXCEPT ![p] =
                                 [ q EXCEPT !.pc = "c_checked", !.code = c,
                                            !.exists = Exists(store, c) ] ]
  /\ nOps' = nOps + 1
  /\ UNCHANGED <<store, users, guests, cache, maxSize, ttl, now, nextId, gen, pending, rateVars, auxVars>>

\* After findOne answered: the slug is taken, or the document is built and saved.
CreateFound(p) ==
  /\ proc[p].pc = "c_found"
  /\ IF proc[p].doc # NoDoc
     THEN /\ proc' = [ proc EXCEPT ![p] =
                         Done(@, "CONFLICT", "This custom slug is already taken") ]
          /\ UNCHANGED nextId
     ELSE /\ proc' = [ proc EXCEPT ![p] =
                         [ @ EXCEPT !.pc = "c_save", !.code = proc[p].slug,
                                    !.doc = BuildUrl(proc[p], proc[p].slug, nextId, now) ] ]
          /\ nextId' = nextId + 1
  /\ UNCHANGED <<store, users, guests, cache, maxSize, ttl, now, nOps, gen, pending, rateVars, auxVars>>

\* After checkExists answered inside generateUniqueShortCode: return the code and
\* build the document, or retry with a new draw, or fall back to a longer code.
CreateChecked(p) ==
  /\ proc[p].pc = "c_checked"
  /\ LET g == AfterCheck(proc[p])
     IN  CASE g.pc = "returned" ->
                /\ proc' = [ proc EXCEPT ![p] =
                               [ g EXCEPT !.pc = "c_save",
                                          !.doc = BuildUrl(g, g.code, nextId, now) ] ]
                /\ nextId' = nextId + 1
           [] g.pc = "loop" ->
                /\ \E c \in generateShortCode(shortCodeLength) :
                     proc' = [ proc EXCEPT ![p] =
                                 [ g EXCEPT !.pc = "c_checked", !.code = c,
                                            !.exists = Exists(store, c) ] ]
                /\ UNCHANGED nextId
           [] g.pc = "fallback" ->
                /\ \E c \in generateShortCode(shortCodeLength + 2) :
                     proc' = [ proc EXCEPT ![p] =
                                 [ g EXCEPT !.pc = "c_save", !.code = c,
                                            !.doc = BuildUrl(g, c, nextId, now) ] ]
                /\ nextId' = nextId + 1
  /\ UNCHANGED <<store, users, guests, cache, maxSize, ttl, now, nOps, gen, pending, rateVars, auxVars>>

\* url.save(): the store inserts the document or refuses it with E11000, which
\* createUrl does not catch.
CreateSave(p) ==
  /\ proc[p].pc = "c_save"
  /\ IF DuplicateKey(store, proc[p].doc)
     THEN /\ proc' = [ proc EXCEPT ![p] = Done(@, "E11000", "duplicate key") ]
          /\ UNCHANGED store
     ELSE /\ proc' = [ proc EXCEPT ![p] = Done(@, "ok", "") ]
          /\ store' = store \cup {proc[p].doc}
  /\ UNCHANGED <<users, guests, cache, maxSize, ttl, now, nextId, nOps, gen, pending, rateVars, auxVars>>

\* ---------------------------------------------- errorHandler (middleware)
\* The response for what a handler threw: <<status, error code>>.
errorHandler(kind) ==
  CASE kind = "BAD_REQUEST" -> <<400, "BAD_REQUEST">>
    [] kind = "UNAUTHORIZED" -> <<401, "UNAUTHORIZED">>
    [] kind = "NOT_FOUND" -> <<404, "NOT_FOUND">>
    [] kind = "CONFLICT" -> <<409, "CONFLICT">>
    [] kind = "E11000" -> <<409, "DUPLICATE_ERROR">>
    [] OTHER -> <<500, "INTERNAL_ERROR">>

\* --------------------------------------- getByShortCode / redirectUrl
\* What getByShortCode makes of the answer at clock t: an error, or the data to cache.
FillOutcome(doc, t) ==
  IF doc = NoDoc THEN [ kind |-> "NOT_FOUND", msg |-> "URL not found" ]
  ELSE IF doc.expiresAt # NoDate /\ doc.expiresAt < t
  THEN [ kind |-> "NOT_FOUND", msg |-> "URL has expired" ]
  ELSE [ kind |-> "ok", msg |-> "" ]

urlDataOf(doc) ==
  [ originalUrl |-> doc.originalUrl, shortCode |-> doc.shortCode, id |-> doc.id ]

\* redirectUrl's own expiry test on what getByShortCode returned.
ControllerExpired(data, t) ==
  /\ "expiresAt" \in DOMAIN data
  /\ data["expiresAt"] # NoDate
  /\ t > data["expiresAt"]

\* redirectUrl once getByShortCode returned data: its own expiry test, then the
\* 301 to data.originalUrl (the click is recorded by a call it does not await).
Redirect(q, data, t) ==
  IF ControllerExpired(data, t)
  THEN Done(q, "TypeError", "AppError.gone is not a function")
  ELSE [ Done(q, "ok", "") EXCEPT !.data = data ]

\* The recordClick call redirectUrl makes without awaiting it, as a call in
\* flight: `seq` tells the calls in flight apart.
NewClick(p, code, ip) ==
  [ by |-> p, code |-> code, ip |-> ip, pc |-> "k_find", doc |-> NoDoc,
    seq |-> CHOOSE k \in 1..(Cardinality(pending) + 1) :
              /\ \A c \in pending : c.seq # k
              /\ \A j \in 1..(k - 1) : \E c \in pending : c.seq = j ]

\* The calls in flight once the handler reached q: one more when it redirected.
Spawned(p, q) ==
  IF q.pc = "done" /\ q.kind = "ok"
  THEN pending \cup { NewClick(p, q.code, "ip1") }
  ELSE pending

\* urlCache.get: a hit returns the cached data, a miss sends the store query.
\* `exists` notes that the get found the code's entry past its expiry and deleted it.
ResolveStart(p, in) ==
  /\ Available(p)
  /\ \E code \in in.codes :
       LET g == cacheGet(cache, code, now)
           q == [ Idle EXCEPT !.op = "resolve", !.code = code,
                              !.exists = (code \in CacheKeys(cache) /\ g.data = NoData) ]
           r == IF g.data # NoData
                THEN Redirect(q, g.data, now)
                ELSE [ q EXCEPT !.pc = "r_find" ]
       IN  /\ cache' = g.cache
           /\ proc' = [ proc EXCEPT ![p] = r ]
           /\ pending' = Spawned(p, r)
  /\ nOps' = nOps + 1
  /\ UNCHANGED <<store, users, guests, maxSize, ttl, now, nextId, gen, rateVars, auxVars>>

\* The store answers Url.findByShortCode.
ResolveFind(p) ==
  /\ proc[p].pc = "r_find"
  /\ proc' = [ proc EXCEPT ![p] =
                 [ @ EXCEPT !.pc = "r_found",
                            !.doc = findByShortCode(store, proc[p].code) ] ]
  /\ UNCHANGED <<store, users, guests, cache, maxSize, ttl, now, nextId, nOps, gen, pending, rateVars, auxVars>>

\* getByShortCode with the cache filled before the answer is looked at.
FillBeforeCheck(p) ==
  /\ proc[p].pc = "r_found"
  /\ LET o == FillOutcome(proc[p].doc, now)
         d == urlDataOf(proc[p].doc)
     IN  /\ cache' = cacheSet(cache, proc[p].code, d, now, maxSize, ttl)
         /\ IF o.kind # "ok"
            THEN /\ proc' = [ proc EXCEPT ![p] = Done(@, o.kind, o.msg) ]
                 /\ UNCHANGED <<pending, rateVars, auxVars>>
            ELSE /\ proc' = [ proc EXCEPT ![p] = Redirect(@, d, now) ]
                 /\ pending' = Spawned(p, Redirect(proc[p], d, now))
  /\ UNCHANGED <<store, users, guests, maxSize, ttl, now, nextId, nOps, gen, rateVars, auxVars>>

\* The continuation after the store answered: throw, or fill the cache and return.
ResolveFill(p) ==
  /\ proc[p].pc = "r_found"
  /\ LET o == FillOutcome(proc[p].doc, now)
         d == urlDataOf(proc[p].doc)
     IN  IF o.kind # "ok"
         THEN /\ proc' = [ proc EXCEPT ![p] = Done(@, o.kind, o.msg) ]
              /\ UNCHANGED <<cache, pending, rateVars, auxVars>>
         ELSE /\ cache' = cacheSet(cache, proc[p].code, d, now, maxSize, ttl)
              /\ proc' = [ proc EXCEPT ![p] = Redirect(@, d, now) ]
              /\ pending' = Spawned(p, Redirect(proc[p], d, now))
  /\ UNCHANGED <<store, users, guests, maxSize, ttl, now, nextId, nOps, gen, rateVars, auxVars>>

\* ------------------------------------------------------------- updateUrl
allowedUpdates == {"originalUrl", "isActive", "expiresAt"}

\* The forEach over Object.keys(updates).
ApplyAnyKey(doc, upd) ==
  [ f \in DOMAIN doc |-> IF f \in upd.keys THEN upd[f] ELSE doc[f] ]

ApplyUpdates(doc, upd) ==
  [ f \in DOMAIN doc |->
      IF f \in upd.keys \cap allowedUpdates
      THEN IF f = "expiresAt" /\ upd[f] = NoDate THEN NoDate ELSE upd[f]
      ELSE doc[f] ]

\* save() of a loaded document: $set of the paths that changed, where _id matches.
Changed(old, new) == { f \in DOMAIN old : old[f] # new[f] }

SaveDoc(st, old, new) ==
  { IF r.id = old.id
    THEN [ f \in DOMAIN r |-> IF f \in Changed(old, new) THEN new[f] ELSE r[f] ]
    ELSE r : r \in st }

\* The store answers Url.findOne({ shortCode, userId }).
UpdateStart(p, in) ==
  /\ Available(p)
  /\ \E code \in in.codes, u \in in.users \cap users, upd \in in.updates :
       proc' = [ proc EXCEPT ![p] =
                   [ Idle EXCEPT !.op = "update", !.pc = "u_found", !.code = code,
                                 !.user = u, !.upd = upd,
                                 !.doc = FindOneOfUser(store, code, u) ] ]
  /\ nOps' = nOps + 1
  /\ UNCHANGED <<store, users, guests, cache, maxSize, ttl, now, nextId, gen, pending, rateVars, auxVars>>

\* The continuation: not found, or the updates are applied and url.save() is
\* executed by the store.  `data` keeps the document as it was loaded.
UpdateSave(p) ==
  /\ proc[p].pc = "u_found"
  /\ LET old == proc[p].doc
         new == ApplyUpdates(old, proc[p].upd)
     IN  IF old = NoDoc
         THEN /\ proc' = [ proc EXCEPT ![p] =
                             Done(@, "NOT_FOUND", "URL not found or access denied") ]
              /\ UNCHANGED store
         ELSE IF Changed(old, new) # {} /\ ~HasId(store, old.id)
         THEN /\ proc' = [ proc EXCEPT ![p] =
                             Done(@, "DocumentNotFoundError", "No document found") ]
              /\ UNCHANGED store
         ELSE /\ store' = SaveDoc(store, old, new)
              /\ proc' = [ proc EXCEPT ![p] =
                             [ @ EXCEPT !.pc = "u_saved", !.doc = new,
                                        !.data = urlDataOf(old) ] ]
  /\ UNCHANGED <<users, guests, cache, maxSize, ttl, now, nextId, nOps, gen, pending, rateVars, auxVars>>

\* After save() resolved: urlCache.invalidate(url.shortCode), then return.
\* `exists` keeps what Map.delete answered: whether an entry was removed.
UpdateFinish(p) ==
  /\ proc[p].pc = "u_saved"
  /\ cache' = invalidate(cache, proc[p].doc.shortCode)
  /\ proc' = [ proc EXCEPT ![p] =
                 [ Done(@, "ok", "") EXCEPT
                     !.exists = proc[p].doc.shortCode \in CacheKeys(cache) ] ]
  /\ UNCHANGED <<store, users, guests, maxSize, ttl, now, nextId, nOps, gen, pending, rateVars, auxVars>>

\* ------------------------------------------- deleteUrl / deleteGuestUrl
\* The store executes Url.findOneAndDelete({ shortCode, userId }).
DeleteStart(p, in) ==
  /\ Available(p)
  /\ \E code \in in.codes, u \in in.users \cap users :
       LET d == FindOneOfUser(store, code, u)
       IN  /\ store' = store \ {d}
           /\ proc' = [ proc EXCEPT ![p] =
                          [ Idle EXCEPT !.op = "delete", !.pc = "d_deleted",
                                        !.code = code, !.user = u, !.doc = d ] ]
  /\ nOps' = nOps + 1
  /\ UNCHANGED <<users, guests, cache, maxSize, ttl, now, nextId, gen, pending, rateVars, auxVars>>

\* The store executes Url.findOneAndDelete({ shortCode, guestId }).
DeleteGuestStart(p, in) ==
  /\ Available(p)
  /\ \E code \in in.codes, g \in Guests :
       LET d == FindOneOfGuest(store, code, g)
       IN  /\ store' = store \ {d}
           /\ proc' = [ proc EXCEPT ![p] =
                          [ Idle EXCEPT !.op = "deleteGuest", !.pc = "d_deleted",
                                        !.code = code, !.guest = g, !.doc = d ] ]
  /\ nOps' = nOps + 1
  /\ UNCHANGED <<users, guests, cache, maxSize, ttl, now, nextId, gen, pending, rateVars, auxVars>>

\* The continuation of either: not found, or invalidate and return.
DeleteFinish(p) ==
  /\ proc[p].pc = "d_deleted"
  /\ IF proc[p].doc = NoDoc
     THEN /\ proc' = [ proc EXCEPT ![p] =
                         Done(@, "NOT_FOUND", "URL not found or access denied") ]
          /\ UNCHANGED cache
     ELSE /\ cache' = invalidate(cache, proc[p].doc.shortCode)
          /\ proc' = [ proc EXCEPT ![p] =
                         [ Done(@, "ok", "URL deleted successfully") EXCEPT
                             !.exists = proc[p].doc.shortCode \in CacheKeys(cache) ] ]
  /\ UNCHANGED <<store, users, guests, maxSize, ttl, now, nextId, nOps, gen, pending, rateVars, auxVars>>

\* ------------------------------------------------------------ recordClick
\* urlSchema.methods.recordClick on a loaded document, before its save().
TrimNewest(doc, ip, t) ==
  [ doc EXCEPT !.clicks = @ + 1,
               !.clickHistory = Append(IF Len(@) >= clickHistoryLimit
                                       THEN SubSeq(@, 1, Len(@) - 1) ELSE @,
                                       [ timestamp |-> t, ip |-> ip ]) ]

recordClick(doc, ip, t) ==
  [ doc EXCEPT !.clicks = @ + 1,
               !.clickHistory = Append(IF Len(@) >= clickHistoryLimit THEN Tail(@) ELSE @,
                                       [ timestamp |-> t, ip |-> ip ]) ]

\* save() after recordClick: clicks is $set; clickHistory is $set as a whole
\* after a shift, and otherwise the new entry is $push-ed onto the stored array.
SaveClick(st, old, new) ==
  { IF r.id = old.id
    THEN [ r EXCEPT !.clicks = new.clicks,
                    !.clickHistory = IF Len(old.clickHistory) >= clickHistoryLimit
                                     THEN new.clickHistory
                                     ELSE Append(@, new.clickHistory[Len(new.clickHistory)]) ]
    ELSE r : r \in st }

\* What becomes of a recordClick call whose promise rejected: redirectUrl's
\* .catch(console.error) logs it, and no handler hears of it.
Logged(c, kind) == [ c EXCEPT !.pc = "logged", !.doc = NoDoc ]

\* The store answers Url.findOne({ shortCode }).
ClickFind(c) ==
  /\ c.pc = "k_find"
  /\ pending' = (pending \ {c}) \cup
                  { [ c EXCEPT !.pc = "k_found", !.doc = FindOne(store, c.code) ] }
  /\ UNCHANGED <<store, users, guests, cache, maxSize, ttl, now, nextId, proc, nOps, gen, rateVars, auxVars>>

\* The continuation: nothing for a missing document, else url.recordClick and
\* its save(), which fails when the document was removed meanwhile.
ClickSaveAwaited(c) ==
  /\ c.pc = "k_found"
  /\ IF c.doc = NoDoc
     THEN /\ pending' = pending \ {c}
          /\ UNCHANGED <<store, proc, rateVars, auxVars>>
     ELSE IF ~HasId(store, c.doc.id)
     THEN /\ pending' = pending \ {c}
          /\ proc' = [ proc EXCEPT ![c.by] = Done(@, "DocumentNotFoundError", "No document found") ]
          /\ UNCHANGED store
     ELSE /\ store' = SaveClick(store, c.doc, recordClick(c.doc, c.ip, now))
          /\ pending' = pending \ {c}
          /\ UNCHANGED proc
  /\ UNCHANGED <<users, guests, cache, maxSize, ttl, now, nextId, nOps, gen, rateVars, auxVars>>

ClickSave(c) ==
  /\ c.pc = "k_found"
  /\ IF c.doc = NoDoc
     THEN /\ pending' = pending \ {c}
          /\ UNCHANGED store
     ELSE IF ~HasId(store, c.doc.id)
     THEN /\ pending' = (pending \ {c}) \cup { Logged(c, "DocumentNotFoundError") }
          /\ UNCHANGED store
     ELSE /\ store' = SaveClick(store, c.doc, recordClick(c.doc, c.ip, now))
          /\ pending' = pending \ {c}
  /\ UNCHANGED <<users, guests, cache, maxSize, ttl, now, nextId, proc, nOps, gen, rateVars, auxVars>>

\* The recordClick calls in flight, each moving on its own.
Clicks == \E c \in pending : ClickFind(c) \/ ClickSave(c)

\* ---------------------------------------------------------- migrateToUser
\* The store answers Guest.findOne({ guestId }).
MigrateStart(p, in) ==
  /\ Available(p)
  /\ \E g \in Guests, u \in in.users \cap users :
       LET found == \E d \in guests : d.guestId = g
           gd == CHOOSE d \in guests : d.guestId = g
       IN  proc' = [ proc EXCEPT ![p] =
                       [ Idle EXCEPT !.op = "migrate", !.pc = "m_found", !.guest = g,
                                     !.user = u, !.exists = found,
                                     !.mig = IF found THEN gd.migratedToUserId ELSE NoId ] ]
  /\ nOps' = nOps + 1
  /\ UNCHANGED <<store, users, guests, cache, maxSize, ttl, now, nextId, gen, pending, rateVars, auxVars>>

\* Url.updateMany({ guestId, userId: null }, { $set: { userId, guestId: null, expiresAt: null } })
MigrateKeepingExpiry(st, g, u) ==
  { IF r.guestId = g /\ r.userId = NoId
    THEN [ r EXCEPT !.userId = u, !.guestId = NoId ]
    ELSE r : r \in st }

MigrateDocs(st, g, u) ==
  { IF r.guestId = g /\ r.userId = NoId
    THEN [ r EXCEPT !.userId = u, !.guestId = NoId, !.expiresAt = NoDate ]
    ELSE r : r \in st }

\* The continuation: nothing to do for an unknown or migrated guest, else updateMany.
MigrateUrls(p) ==
  /\ proc[p].pc = "m_found"
  /\ IF ~proc[p].exists \/ proc[p].mig # NoId
     THEN /\ proc' = [ proc EXCEPT ![p] = Done(@, "ok", "") ]
          /\ UNCHANGED store
     ELSE /\ store' = MigrateDocs(store, proc[p].guest, proc[p].user)
          /\ proc' = [ proc EXCEPT ![p] =
                         [ @ EXCEPT !.pc = "m_updated",
                                    !.n = Cardinality({ r \in store :
                                            r.guestId = proc[p].guest /\ r.userId = NoId }) ] ]
  /\ UNCHANGED <<users, guests, cache, maxSize, ttl, now, nextId, nOps, gen, pending, rateVars, auxVars>>

\* guest.migratedToUserId = userId; guest.save()
MigrateMark(p) ==
  /\ proc[p].pc = "m_updated"
  /\ guests' = { IF d.guestId = proc[p].guest
                 THEN [ d EXCEPT !.migratedToUserId = proc[p].user ] ELSE d : d \in guests }
  /\ proc' = [ proc EXCEPT ![p] = Done(@, "ok", "") ]
  /\ UNCHANGED <<store, users, cache, maxSize, ttl, now, nextId, nOps, gen, pending, rateVars, auxVars>>

\* ---------------------------------------------------------- deleteAccount
\* The store answers User.findById; pw tells whether the password given matches.
AccountStart(p, in) ==
  /\ Available(p)
  /\ \E u \in in.users \cap users, pw \in BOOLEAN :
       proc' = [ proc EXCEPT ![p] =
                   [ Idle EXCEPT !.op = "deleteAccount", !.pc = "a_found", !.user = u,
                                 !.pw = pw, !.exists = TRUE ] ]
  /\ nOps' = nOps + 1
  /\ UNCHANGED <<store, users, guests, cache, maxSize, ttl, now, nextId, gen, pending, rateVars, auxVars>>

\* The continuation: the checks, then Url.deleteMany({ userId }).
AccountUrls(p) ==
  /\ proc[p].pc = "a_found"
  /\ IF ~proc[p].exists
     THEN /\ proc' = [ proc EXCEPT ![p] = Done(@, "NOT_FOUND", "User not found") ]
          /\ UNCHANGED store
     ELSE IF ~proc[p].pw
     THEN /\ proc' = [ proc EXCEPT ![p] = Done(@, "UNAUTHORIZED", "Invalid password") ]
          /\ UNCHANGED store
     ELSE /\ store' = { r \in store : r.userId # proc[p].user }
          /\ proc' = [ proc EXCEPT ![p] =
                         [ @ EXCEPT !.pc = "a_urls",
                                    !.n = Cardinality({ r \in store :
                                            r.userId = proc[p].user }) ] ]
  /\ UNCHANGED <<users, guests, cache, maxSize, ttl, now, nextId, nOps, gen, pending, rateVars, auxVars>>

\* User.findByIdAndDelete(userId), then return.
AccountDelete(p) ==
  /\ proc[p].pc = "a_urls"
  /\ users' = users \ {proc[p].user}
  /\ proc' = [ proc EXCEPT ![p] = Done(@, "ok", "Account deleted successfully") ]
  /\ UNCHANGED <<store, guests, cache, maxSize, ttl, now, nextId, nOps, gen, pending, rateVars, auxVars>>

\* ------------------------------------------------- background and clock
\* cleanupExpiredUrls: Url.deleteMany({ expiresAt: { $lt: new Date() } })
cleanupExpiredUrls ==
  /\ store' = { r \in store : ~Expired(r, now) }
  /\ UNCHANGED <<users, guests, cache, maxSize, ttl, now, nextId, proc, nOps, gen, pending, rateVars, auxVars>>

\* The store's TTL monitor on the expiresAt index (expireAfterSeconds: 0).
TtlMonitor ==
  /\ \E r \in store : Expired(r, now)
  /\ store' = { r \in store : ~Expired(r, now) }
  /\ UNCHANGED <<users, guests, cache, maxSize, ttl, now, nextId, proc, nOps, gen, pending, rateVars, auxVars>>

\* The cache's own five-minute timer.
CacheCleanup ==
  /\ cleanupInterval
  /\ cache' = cleanup(cache, now)
  /\ UNCHANGED <<store, users, guests, maxSize, ttl, now, nextId, proc, nOps, gen, pending, rateVars, auxVars>>

Tick ==
  /\ now < MaxTime
  /\ now' = now + 1
  /\ UNCHANGED <<store, users, guests, cache, maxSize, ttl, nextId, proc, nOps, gen, pending, rateVars, auxVars>>

\* ---------------------------------------------------- the cache on its own
\* A caller of the UrlCache methods ("p1"): `codes` keeps the codes it has set,
\* `i` how many sets it made, `exp` the expiry its first set gave (the earliest
\* of all), `n` how many of its gets found their entry past its expiry, `data`
\* what the last call returned or was given.
CacheCodes == { <<"k", ALPHABET[i]>> : i \in 1..(TestMaxSize + 1) }

CacheData(key) == [ originalUrl |-> UrlA, shortCode |-> key, id |-> 1 ]

InitCache ==
  /\ store = {}
  /\ users = Users
  /\ guests = { [ guestId |-> g, migratedToUserId |-> NoId ] : g \in Guests }
  /\ cache = << >>
  /\ maxSize = TestMaxSize
  /\ ttl = CacheTtl
  /\ now = 0
  /\ nextId = 1
  /\ proc = [ p \in Procs |-> Idle ]
  /\ nOps = 0
  /\ gen = IdleGen
  /\ pending = {}
  /\ RateIdle
  /\ AuxIdle

\* urlCache.set(shortCode, urlData)
CacheSetCall ==
  /\ nOps < MaxCacheOps
  /\ \E key \in CacheCodes :
       /\ cache' = cacheSet(cache, key, CacheData(key), now, maxSize, ttl)
       /\ proc' = [ proc EXCEPT !["p1"] =
                      [ @ EXCEPT !.op = "cache.set", !.pc = "done", !.code = key,
                                 !.data = CacheData(key), !.codes = @ \cup {key},
                                 !.i = @ + 1,
                                 !.exp = IF @ = NoDate THEN now + ttl ELSE @ ] ]
  /\ nOps' = nOps + 1
  /\ UNCHANGED <<store, users, guests, maxSize, ttl, now, nextId, gen, pending, rateVars, auxVars>>

\* urlCache.get(shortCode)
CacheGetCall ==
  /\ nOps < MaxCacheOps
  /\ \E key \in CacheCodes :
       LET g == cacheGet(cache, key, now)
       IN  /\ cache' = g.cache
           /\ proc' = [ proc EXCEPT !["p1"] =
                          [ @ EXCEPT !.op = "cache.get", !.pc = "done", !.code = key,
                                     !.data = g.data,
                                     !.n = IF key \in CacheKeys(cache) /\ g.data = NoData
                                           THEN @ + 1 ELSE @ ] ]
  /\ nOps' = nOps + 1
  /\ UNCHANGED <<store, users, guests, maxSize, ttl, now, nextId, gen, pending, rateVars, auxVars>>

TickCache ==
  /\ now < MaxCacheTime
  /\ now' = now + 1
  /\ UNCHANGED <<store, users, guests, cache, maxSize, ttl, nextId, proc, nOps, gen, pending, rateVars, auxVars>>

\* The cache under its callers and its timer.
NextCache == CacheSetCall \/ CacheGetCall \/ CacheCleanup \/ TickCache

SpecCache == InitCache /\ [][NextCache]_vars

\* A caller of any method of UrlCache: `setAt` keeps, per code, the clock of
\* the caller's last set of it.
CacheMethods == {"cache.set", "cache.get", "cache.invalidate", "cache.clear", "cache.destroy"}

\* The Map after the method m of UrlCache, called at clock t.
CacheAfter(c, m, key, t, cap, life) ==
  CASE m = "cache.set" -> cacheSet(c, key, CacheData(key), t, cap, life)
    [] m = "cache.get" -> cacheGet(c, key, t).cache
    [] m = "cache.invalidate" -> invalidate(c, key)
    [] m = "cache.clear" -> clear(c)
    [] m = "cache.destroy" -> clear(c)

CacheMethodCall ==
  /\ nOps < MaxAllOps
  /\ \E m \in CacheMethods, key \in CacheCodes :
       /\ m \in {"cache.clear", "cache.destroy"} => key = <<"k", ALPHABET[1]>>
       /\ cache' = CacheAfter(cache, m, key, now, maxSize, ttl)
       /\ cleanupInterval' = IF m = "cache.destroy" THEN FALSE ELSE cleanupInterval
       /\ proc' = [ proc EXCEPT !["p1"] =
                      [ @ EXCEPT !.op = m, !.pc = "done",
                                 !.code = IF m \in {"cache.clear", "cache.destroy"}
                                          THEN NoSlug ELSE key,
                                 !.data = IF m = "cache.get"
                                          THEN cacheGet(cache, key, now).data ELSE NoData,
                                 !.setAt = IF m = "cache.set"
                                           THEN [ k \in DOMAIN @ \cup {key} |->
                                                    IF k = key THEN now ELSE @[k] ]
                                           ELSE @ ] ]
  /\ nOps' = nOps + 1
  /\ UNCHANGED <<store, users, guests, maxSize, ttl, now, nextId, gen, pending, rateVars,
                 sched, otpStore>>

\* The cache under every method of UrlCache and its timer.
NextCacheAll == CacheMethodCall \/ CacheCleanup \/ TickCache

\* A cache of any capacity from 1 up.
InitCacheAll ==
  /\ store = {}
  /\ users = Users
  /\ guests = { [ guestId |-> g, migratedToUserId |-> NoId ] : g \in Guests }
  /\ cache = << >>
  /\ maxSize \in 1..TestMaxSize
  /\ ttl = CacheTtl
  /\ now = 0
  /\ nextId = 1
  /\ proc = [ p \in Procs |-> Idle ]
  /\ nOps = 0
  /\ gen = IdleGen
  /\ pending = {}
  /\ RateIdle
  /\ AuxIdle

SpecCacheAll == InitCacheAll /\ [][NextCacheAll]_vars

\* The same with the timer firing again and again while it is set: whenever the
\* callback has an entry to remove, it is not put off forever.
SpecCacheFair == SpecCacheAll /\ WF_vars(CacheCleanup)

\* ----------------------------------------- the cleanup scheduler on its own
\* The three tasks of runCleanup.  `ok` says whether the store executed the
\* query; when it did not, the await throws inside the task's try block.  Each
\* returns the collection afterwards, the count the task returns, and whether an
\* error left the task.

\* setExpirationForGuestUrls: Url.updateMany({ guestId: { $ne: null },
\* userId: null, expiresAt: null }, { $set: { expiresAt } })
setExpirationForGuestUrls(st, t, ok) ==
  LET hit == { r \in st : r.guestId # NoId /\ r.userId = NoId /\ r.expiresAt = NoDate }
  IN  IF ok
      THEN [ store |-> (st \ hit) \cup
                       { [ r EXCEPT !.expiresAt = getGuestUrlExpirationDate(t) ] : r \in hit },
             result |-> Cardinality(hit), thrown |-> FALSE ]
      ELSE [ store |-> st, result |-> 0, thrown |-> FALSE ]

\* cleanupExpiredUrls with its catch block removed.
SweepRethrows(st, t, ok) ==
  IF ok
  THEN [ store |-> { r \in st : ~Expired(r, t) },
         result |-> Cardinality({ r \in st : Expired(r, t) }), thrown |-> FALSE ]
  ELSE [ store |-> st, result |-> 0, thrown |-> TRUE ]

\* cleanupExpiredUrls: try { deleteMany; return deletedCount } catch { return 0 }
cleanupExpiredUrlsTry(st, t, ok) ==
  IF ok
  THEN [ store |-> { r \in st : ~Expired(r, t) },
         result |-> Cardinality({ r \in st : Expired(r, t) }), thrown |-> FALSE ]
  ELSE [ store |-> st, result |-> 0, thrown |-> FALSE ]

\* cleanupOldGuests: Guest.deleteMany({ lastActivity: { $lt: now - 7 days } })
cleanupOldGuests(gs, t, ok) ==
  LET old == { g \in gs : g.lastActivity < t - GUEST_URL_EXPIRY_DAYS * 24 }
  IN  IF ok
      THEN [ guests |-> gs \ old, result |-> Cardinality(old), thrown |-> FALSE ]
      ELSE [ guests |-> gs, result |-> 0, thrown |-> FALSE ]

\* The documents the scheduler finds at startup: a user's link expiring at
\* clock 0, a guest link older than the expiration feature (no expiresAt), a
\* guest link expiring at clock 1; a guest seen at clock 0 and one last seen
\* eight days before.
SweepDocs ==
  { NewUrl(1, UrlA, SlugPromo, SlugPromo, "u1", NoId, 0, 0),
    NewUrl(2, UrlB, SlugGen, NoSlug, NoId, "g1", NoDate, 0),
    NewUrl(3, UrlA, SlugShort, NoSlug, NoId, "g1", 1, 0) }

SweepGuests ==
  { [ guestId |-> "g1", migratedToUserId |-> NoId, lastActivity |-> 0 ],
    [ guestId |-> "g0", migratedToUserId |-> NoId,
      lastActivity |-> 0 - (GUEST_URL_EXPIRY_DAYS + 1) * 24 ] }

InitSweep ==
  /\ store \in SUBSET SweepDocs
  /\ users = Users
  /\ guests \in SUBSET SweepGuests
  /\ cache = << >>
  /\ maxSize = CacheMaxSize
  /\ ttl = CacheTtl
  /\ now = 0
  /\ nextId = 4
  /\ proc = [ p \in Procs |-> Idle ]
  /\ nOps = 0
  /\ gen = IdleGen
  /\ pending = {}
  /\ RateIdle
  /\ AuxIdle

\* An error left a task: runCleanup's promise rejects, nothing handles the
\* rejection, and the process's unhandledRejection handler calls process.exit(1).
Exited(sc) == [ sc EXCEPT !.alive = FALSE, !.interval = FALSE, !.pc = "exited", !.due = FALSE ]

\* startCleanupScheduler: runCleanup() at once, then setInterval(runCleanup, 1 hour)
startCleanupScheduler ==
  /\ sched.alive /\ ~sched.interval
  /\ sched' = [ sched EXCEPT !.interval = TRUE, !.pc = "setExpiration", !.runs = @ + 1 ]
  /\ UNCHANGED <<store, users, guests, cache, maxSize, ttl, now, nextId, proc, nOps, gen,
                 pending, rateVars, cleanupInterval, otpStore>>

\* The interval's callback: runCleanup() up to its first await.
SweepTimer ==
  /\ sched.alive /\ sched.interval /\ sched.due /\ sched.pc = "idle"
  /\ sched' = [ sched EXCEPT !.due = FALSE, !.pc = "setExpiration", !.runs = @ + 1 ]
  /\ UNCHANGED <<store, users, guests, cache, maxSize, ttl, now, nextId, proc, nOps, gen,
                 pending, rateVars, cleanupInterval, otpStore>>

\* await setExpirationForGuestUrls()
RunSetExpiration ==
  /\ sched.pc = "setExpiration"
  /\ \E ok \in BOOLEAN :
       LET r == setExpirationForGuestUrls(store, now, ok)
       IN  /\ store' = r.store
           /\ sched' = IF r.thrown THEN Exited(sched)
                       ELSE [ sched EXCEPT !.pc = "cleanupExpired",
                                           !.caught = IF ok THEN @ ELSE @ + 1 ]
  /\ UNCHANGED <<users, guests, cache, maxSize, ttl, now, nextId, proc, nOps, gen,
                 pending, rateVars, cleanupInterval, otpStore>>

\* const expiredUrls = await cleanupExpiredUrls()
RunCleanupExpired ==
  /\ sched.pc = "cleanupExpired"
  /\ \E ok \in BOOLEAN :
       LET r == cleanupExpiredUrlsTry(store, now, ok)
       IN  /\ store' = r.store
           /\ sched' = IF r.thrown THEN Exited(sched)
                       ELSE [ sched EXCEPT !.pc = "cleanupGuests", !.expiredUrls = r.result,
                                           !.caught = IF ok THEN @ ELSE @ + 1 ]
  /\ UNCHANGED <<users, guests, cache, maxSize, ttl, now, nextId, proc, nOps, gen,
                 pending, rateVars, cleanupInterval, otpStore>>

\* const oldGuests = await cleanupOldGuests(); "Cleanup complete"
RunCleanupGuests ==
  /\ sched.pc = "cleanupGuests"
  /\ \E ok \in BOOLEAN :
       LET r == cleanupOldGuests(guests, now, ok)
       IN  /\ guests' = r.guests
           /\ sched' = IF r.thrown THEN Exited(sched)
                       ELSE [ sched EXCEPT !.pc = "idle", !.oldGuests = r.result,
                                           !.caught = IF ok THEN @ ELSE @ + 1 ]
  /\ UNCHANGED <<store, users, cache, maxSize, ttl, now, nextId, proc, nOps, gen,
                 pending, rateVars, cleanupInterval, otpStore>>

\* An hour passes.  A run takes far less than the hour between two callbacks, so
\* the run of this hour is over; the interval, while set, then has its callback due.
TickSweep ==
  /\ now < MaxSweepTime
  /\ sched.pc \in {"idle", "exited"} /\ ~sched.due
  /\ now' = now + 1
  /\ sched' = [ sched EXCEPT !.due = sched.alive /\ sched.interval ]
  /\ UNCHANGED <<store, users, guests, cache, maxSize, ttl, nextId, proc, nOps, gen,
                 pending, rateVars, cleanupInterval, otpStore>>

NextSweep ==
  \/ startCleanupScheduler \/ SweepTimer
  \/ RunSetExpiration \/ RunCleanupExpired \/ RunCleanupGuests
  \/ TickSweep

SpecSweep == InitSweep /\ [][NextSweep]_vars

\* ------------------------------------------- click recordings on their own
\* A document that has been clicked h times at clock 0.
ClickedUrl(h) ==
  [ NewUrl(1, UrlA, SlugPromo, SlugPromo, "u1", NoId, NoDate, 0) EXCEPT
      !.clicks = h,
      !.clickHistory = [ i \in 1..h |-> [ timestamp |-> 0, ip |-> "ip1" ] ] ]

InitClicks ==
  /\ \E h \in {0, clickHistoryLimit - 1, clickHistoryLimit} : store = { ClickedUrl(h) }
  /\ users = Users
  /\ guests = { [ guestId |-> g, migratedToUserId |-> NoId ] : g \in Guests }
  /\ cache = << >>
  /\ maxSize = CacheMaxSize
  /\ ttl = CacheTtl
  /\ now = 0
  /\ nextId = 2
  /\ proc = [ p \in Procs |-> Idle ]
  /\ nOps = 0
  /\ gen = IdleGen
  /\ pending = {}
  /\ RateIdle
  /\ AuxIdle

\* urlService.recordClick(shortCode, clickData), called once the call before
\* it has settled.
ClickCall ==
  /\ nOps < MaxClickOps
  /\ \A c \in pending : c.pc = "logged"
  /\ \E code \in RequestCodes, ip \in {"ip1", "ip2"} :
       pending' = pending \cup { NewClick("p1", code, ip) }
  /\ nOps' = nOps + 1
  /\ UNCHANGED <<store, users, guests, cache, maxSize, ttl, now, nextId, proc, gen, rateVars, auxVars>>

NextClicks == ClickCall \/ Clicks \/ Tick

SpecClicks == InitClicks /\ [][NextClicks]_vars

\* ---------------------------------------------- the rate limiter on its own
\* In this specification the clock counts minutes.
RateIps == {"ip1", "ip2"}

\* keyGenerator of the pre-configured limiters: auth:<ip>, url:<ip>:<userId>,
\* guest:<ip>.
RateKey(l, ip) == IF l.name = "url" THEN <<l.name, ip, "u1">> ELSE <<l.name, ip>>

\* The entry the middleware counts the request on: the stored one, or a new one
\* when there is none or its resetTime has passed.
rateData(st, key, t, windowMs) ==
  IF key \notin DOMAIN st \/ t > st[key].resetTime
  THEN [ count |-> 0, resetTime |-> t + windowMs ]
  ELSE st[key]

\* The middleware createRateLimiter returns, for a request with this key at
\* clock t: the Map afterwards and the response (200 for next()).
RejectAtMax(st, key, t, windowMs, max) ==
  LET d == [ rateData(st, key, t, windowMs) EXCEPT !.count = @ + 1 ]
  IN  [ store |-> (key :> d) @@ st,
        status |-> IF d.count >= max THEN 429 ELSE 200 ]

createRateLimiter(st, key, t, windowMs, max) ==
  LET d == [ rateData(st, key, t, windowMs) EXCEPT !.count = @ + 1 ]
  IN  [ store |-> (key :> d) @@ st,
        status |-> IF d.count > max THEN 429 ELSE 200 ]

\* What the handlers behind the limiter saw of a key: the clock of the first
\* request of its window, a window being over once the clock is past its start
\* plus windowMs, the requests passed on since, and the last response.
Observe(sv, key, t, windowMs, status) ==
  LET open == key \in DOMAIN sv /\ ~(t > sv[key].start + windowMs)
      w == IF open THEN sv[key] ELSE [ start |-> t, passed |-> 0, status |-> 0 ]
  IN  (key :> [ w EXCEPT !.passed = IF status = 200 THEN @ + 1 ELSE @,
                         !.status = status ]) @@ sv

InitRate ==
  /\ store = {}
  /\ users = Users
  /\ guests = { [ guestId |-> g, migratedToUserId |-> NoId ] : g \in Guests }
  /\ cache = << >>
  /\ maxSize = CacheMaxSize
  /\ ttl = CacheTtl
  /\ now = 0
  /\ nextId = 1
  /\ proc = [ p \in Procs |-> Idle ]
  /\ nOps = 0
  /\ gen = IdleGen
  /\ pending = {}
  /\ rateLimitStore = << >>
  /\ limiter \in {authLimiter, urlLimiter, guestLimiter}
  /\ served = << >>
  /\ AuxIdle

\* A request reaches the limiter.
RateRequest ==
  /\ \E ip \in RateIps :
       LET key == RateKey(limiter, ip)
           r == createRateLimiter(rateLimitStore, key, now, limiter.windowMs, limiter.max)
       IN  /\ r.store[key].count <= limiter.max + MaxOver
           /\ rateLimitStore' = r.store
           /\ served' = Observe(served, key, now, limiter.windowMs, r.status)
  /\ UNCHANGED <<store, users, guests, cache, maxSize, ttl, now, nextId, proc, nOps, gen,
                 pending, limiter, auxVars>>

\* The setInterval that deletes the entries whose resetTime has passed.
RateCleanup ==
  /\ rateLimitStore' = [ k \in { k \in DOMAIN rateLimitStore :
                                  ~(now > rateLimitStore[k].resetTime) } |->
                           rateLimitStore[k] ]
  /\ UNCHANGED <<store, users, guests, cache, maxSize, ttl, now, nextId, proc, nOps, gen,
                 pending, limiter, served, auxVars>>

\* The clock moves on by a minute or by a whole window.
TickRate ==
  /\ limiter.ticks < MaxRateTicks
  /\ \E d \in {1, limiter.windowMs} : now' = now + d
  /\ limiter' = [ limiter EXCEPT !.ticks = @ + 1 ]
  /\ UNCHANGED <<store, users, guests, cache, maxSize, ttl, nextId, proc, nOps, gen,
                 pending, rateLimitStore, served, auxVars>>

NextRate == RateRequest \/ RateCleanup \/ TickRate

SpecRate == InitRate /\ [][NextRate]_vars

\* ------------------------------------------------- the OTP store on its own
\* In this specification the clock counts minutes.  otpStore is a function from
\* keys (lower-cased emails) to [otp, expiresAt, attempts, userData].
OtpEmails == {"ann@x.io", "Ann@x.io"}

\* email.toLowerCase()
toLowerCase(email) == IF email = "Ann@x.io" THEN "ann@x.io" ELSE email

\* generateOTP: crypto.randomInt(100000, 999999).toString()
generateOTP == {"100000", "999998"}

\* What a caller may send as the code: the two above and one never generated.
OtpInputs == generateOTP \cup {"000000"}

MapSet(m, key, val) == [ k \in DOMAIN m \cup {key} |-> IF k = key THEN val ELSE m[k] ]

MapDelete(m, key) == [ k \in DOMAIN m \ {key} |-> m[k] ]

\* storeOTP
storeOTP(st, email, otp, userData, t) ==
  MapSet(st, toLowerCase(email),
         [ otp |-> otp, userData |-> userData, expiresAt |-> t + OtpLifetime, attempts |-> 0 ])

\* verifyOTP with the entry left in place after a match.
VerifyKeepsOtp(st, email, inputOTP, t) ==
  LET key == toLowerCase(email)
  IN  IF key \notin DOMAIN st
      THEN [ store |-> st, valid |-> FALSE, error |-> "OTP expired or not found" ]
      ELSE IF t > st[key].expiresAt
      THEN [ store |-> MapDelete(st, key), valid |-> FALSE, error |-> "OTP has expired" ]
      ELSE LET data == [ st[key] EXCEPT !.attempts = @ + 1 ]
           IN  IF data.attempts > OtpMaxAttempts
               THEN [ store |-> MapDelete(st, key), valid |-> FALSE,
                      error |-> "Too many attempts" ]
               ELSE IF data.otp # inputOTP
               THEN [ store |-> MapSet(st, key, data), valid |-> FALSE,
                      error |-> "Invalid OTP" ]
               ELSE [ store |-> MapSet(st, key, data), valid |-> TRUE, error |-> "" ]

\* verifyOTP: the Map afterwards and what is returned.
verifyOTP(st, email, inputOTP, t) ==
  LET key == toLowerCase(email)
  IN  IF key \notin DOMAIN st
      THEN [ store |-> st, valid |-> FALSE, error |-> "OTP expired or not found" ]
      ELSE IF t > st[key].expiresAt
      THEN [ store |-> MapDelete(st, key), valid |-> FALSE, error |-> "OTP has expired" ]
      ELSE LET data == [ st[key] EXCEPT !.attempts = @ + 1 ]
           IN  IF data.attempts > OtpMaxAttempts
               THEN [ store |-> MapDelete(st, key), valid |-> FALSE,
                      error |-> "Too many attempts" ]
               ELSE IF data.otp # inputOTP
               THEN [ store |-> MapSet(st, key, data), valid |-> FALSE,
                      error |-> "Invalid OTP" ]
               ELSE [ store |-> MapDelete(st, key), valid |-> TRUE, error |-> "" ]

\* resendOTP up to its await: the Map afterwards, or thrown when nothing is pending.
resendOTP(st, email, otp, t) ==
  LET key == toLowerCase(email)
  IN  IF key \notin DOMAIN st
      THEN [ store |-> st, thrown |-> TRUE ]
      ELSE [ store |-> MapSet(st, key, [ st[key] EXCEPT !.otp = otp,
                                                        !.expiresAt = t + OtpLifetime,
                                                        !.attempts = 0 ]),
             thrown |-> FALSE ]

\* The caller ("p1") keeps what it last called (op, url = the email, slug = the
\* code sent, kind = the answer) and, of the OTP last stored or resent: `code`
\* the OTP, `exp` the clock of its issue, `i` the verify calls made since,
\* `exists` whether one of them was answered valid; `n` counts the clock steps.
InitOtp ==
  /\ store = {}
  /\ users = Users
  /\ guests = { [ guestId |-> g, migratedToUserId |-> NoId ] : g \in Guests }
  /\ cache = << >>
  /\ maxSize = CacheMaxSize
  /\ ttl = CacheTtl
  /\ now = 0
  /\ nextId = 1
  /\ proc = [ p \in Procs |-> Idle ]
  /\ nOps = 0
  /\ gen = IdleGen
  /\ pending = {}
  /\ RateIdle
  /\ AuxIdle

\* requestRegistrationOTP(email, userData): generateOTP, storeOTP, then the
\* mail is sent or sendMail throws.
OtpRequest ==
  /\ nOps < MaxOtpOps
  /\ \E email \in OtpEmails, otp \in generateOTP, sent \in BOOLEAN :
       /\ otpStore' = storeOTP(otpStore, email, otp, email, now)
       /\ proc' = [ proc EXCEPT !["p1"] =
                      [ @ EXCEPT !.op = "otp.request", !.pc = "done", !.url = <<email, "">>,
                                 !.slug = << >>,
                                 !.kind = IF sent THEN "ok" ELSE "thrown",
                                 !.code = <<otp>>, !.exp = now, !.i = 0, !.exists = FALSE ] ]
  /\ nOps' = nOps + 1
  /\ UNCHANGED <<store, users, guests, cache, maxSize, ttl, now, nextId, gen, pending,
                 rateVars, sched, cleanupInterval>>

\* verifyOTP(email, inputOTP)
OtpVerify ==
  /\ nOps < MaxOtpOps
  /\ \E email \in OtpEmails, inputOTP \in OtpInputs :
       LET r == verifyOTP(otpStore, email, inputOTP, now)
       IN  /\ otpStore' = r.store
           /\ proc' = [ proc EXCEPT !["p1"] =
                          [ @ EXCEPT !.op = "otp.verify", !.pc = "done",
                                     !.url = <<email, "">>, !.slug = <<inputOTP>>,
                                     !.kind = IF r.valid THEN "valid" ELSE "invalid",
                                     !.msg = r.error,
                                     !.i = @ + 1,
                                     !.exists = @ \/ r.valid ] ]
  /\ nOps' = nOps + 1
  /\ UNCHANGED <<store, users, guests, cache, maxSize, ttl, now, nextId, gen, pending,
                 rateVars, sched, cleanupInterval>>

\* resendOTP(email): a new code for the pending entry, then the mail.
OtpResend ==
  /\ nOps < MaxOtpOps
  /\ \E email \in OtpEmails, otp \in generateOTP, sent \in BOOLEAN :
       LET r == resendOTP(otpStore, email, otp, now)
       IN  /\ otpStore' = r.store
           /\ proc' = [ proc EXCEPT !["p1"] =
                          IF r.thrown
                          THEN [ @ EXCEPT !.op = "otp.resend", !.pc = "done",
                                          !.url = <<email, "">>, !.slug = << >>,
                                          !.kind = "thrown" ]
                          ELSE [ @ EXCEPT !.op = "otp.resend", !.pc = "done",
                                          !.url = <<email, "">>, !.slug = << >>,
                                          !.kind = IF sent THEN "ok" ELSE "thrown",
                                          !.code = <<otp>>, !.exp = now, !.i = 0,
                                          !.exists = FALSE ] ]
  /\ nOps' = nOps + 1
  /\ UNCHANGED <<store, users, guests, cache, maxSize, ttl, now, nextId, gen, pending,
                 rateVars, sched, cleanupInterval>>

\* The one-minute interval that deletes the entries past their expiry.
OtpCleanup ==
  /\ otpStore' = [ k \in { k \in DOMAIN otpStore : ~(now > otpStore[k].expiresAt) } |->
                     otpStore[k] ]
  /\ UNCHANGED <<store, users, guests, cache, maxSize, ttl, now, nextId, proc, nOps, gen,
                 pending, rateVars, sched, cleanupInterval>>

\* The clock moves on by a minute or by the lifetime of an OTP.
TickOtp ==
  /\ proc["p1"].n < MaxOtpTicks
  /\ \E d \in {1, OtpLifetime} : now' = now + d
  /\ proc' = [ proc EXCEPT !["p1"] = [ @ EXCEPT !.n = @ + 1 ] ]
  /\ UNCHANGED <<store, users, guests, cache, maxSize, ttl, nextId, nOps, gen, pending,
                 rateVars, auxVars>>

NextOtp == OtpRequest \/ OtpVerify \/ OtpResend \/ OtpCleanup \/ TickOtp

SpecOtp == InitOtp /\ [][NextOtp]_vars

\* ------------------------------------------------------- specifications
\* What the requests of a specification are drawn from.
SeqInputs ==
  [ creates |-> CreateInputs, codes |-> RequestCodes, users |-> Users,
    updates |-> UpdateInputs ]

ConcInputs ==
  [ creates |-> { a \in CreateInputs :
                    isValidUrl(a.url) /\ a.exp = NoDate /\ a.slug \in {NoSlug, SlugPromo, SlugGen} },
    codes |-> {SlugPromo}, users |-> {"u1"},
    updates |-> { u \in UpdateInputs : u.keys = {"originalUrl"} } ]

Step(p, in) ==
  \/ CreateStart(p, in) \/ CreateFound(p) \/ CreateChecked(p) \/ CreateSave(p)
  \/ ResolveStart(p, in) \/ ResolveFind(p) \/ ResolveFill(p)
  \/ UpdateStart(p, in) \/ UpdateSave(p) \/ UpdateFinish(p)
  \/ DeleteStart(p, in) \/ DeleteGuestStart(p, in) \/ DeleteFinish(p)
  \/ MigrateStart(p, in) \/ MigrateUrls(p) \/ MigrateMark(p)
  \/ AccountStart(p, in) \/ AccountUrls(p) \/ AccountDelete(p)

Background == cleanupExpiredUrls \/ TtlMonitor \/ CacheCleanup \/ Tick

\* Handlers of concurrent requests, interleaved at their awaits.
Next == (\E p \in Procs : Step(p, ConcInputs)) \/ Clicks \/ Background

Spec == Init /\ [][Next]_vars

\* One request at a time: each handler runs to its end before the next starts.
NextSeq == Step("p1", SeqInputs) \/ Clicks \/ Background

SpecSeq == Init /\ [][NextSeq]_vars

\* Creates and resolves, one request at a time, over a clock that runs past the
\* cache's TTL.
FillInputs ==
  [ creates |-> { a \in CreateInputs :
                    /\ isValidUrl(a.url) /\ a.user = "u1" /\ a.exp = NoDate
                    /\ a.slug \in {NoSlug, SlugPromo} },
    codes |-> {SlugPromo}, users |-> {"u1"}, updates |-> {} ]

NextFill ==
  \/ CreateStart("p1", FillInputs) \/ CreateFound("p1") \/ CreateChecked("p1")
  \/ CreateSave("p1")
  \/ ResolveStart("p1", FillInputs) \/ ResolveFind("p1") \/ ResolveFill("p1")
  \/ Clicks \/ TtlMonitor \/ CacheCleanup \/ TickCache

SpecFill == Init /\ [][NextFill]_vars

\* Resolves and updates of isActive by the owner, interleaved at their awaits.
DeactInputs ==
  [ creates |-> {}, codes |-> {SlugPromo}, users |-> {"u1"},
    updates |-> { [ NoUpd EXCEPT !.keys = {"isActive"}, !.isActive = b ] : b \in BOOLEAN } ]

NextDeact ==
  \/ \E p \in Procs :
       \/ ResolveStart(p, DeactInputs) \/ ResolveFind(p) \/ ResolveFill(p)
       \/ UpdateStart(p, DeactInputs) \/ UpdateSave(p) \/ UpdateFinish(p)
  \/ Clicks \/ Tick

SpecDeact == Init /\ [][NextDeact]_vars

\* =================================================================== claims
\* What a getByShortCode call made now, with nothing else in flight, returns:
\* the cache first, then the store.
ResolveNow(code) ==
  LET g == cacheGet(cache, code, now)
      d == findByShortCode(store, code)
      o == FillOutcome(d, now)
  IN  IF g.data # NoData THEN [ kind |-> "ok", url |-> g.data.originalUrl ]
      ELSE IF o.kind = "ok" THEN [ kind |-> "ok", url |-> d.originalUrl ]
      ELSE [ kind |-> o.kind, url |-> <<"", "">> ]

\* The store holds an active, unexpired document for the code.
Live(code) == \E r \in store : r.shortCode = code /\ r.isActive /\ ~Expired(r, now)

InFlight(p) == proc[p].pc \notin {"idle", "done"}

\* C1: no two documents of the store have the same shortCode, whatever requests
\* (create, update, delete, click, migration, account deletion) interleave and
\* whatever the sweeps remove.
C1_UniqueShortCodes ==
  \A r1, r2 \in store : r1.shortCode = r2.shortCode => r1 = r2

\* A second document was saved next to the first and a duplicate insert was refused.
C1_Witness ==
  /\ Cardinality(store) >= 2
  /\ \E r \in store : r.customSlug = NoSlug
  /\ \E p \in Procs : proc[p].op = "create" /\ proc[p].kind = "E11000"

\* C2 (as claimed): of two concurrent createUrl calls with the same valid custom
\* slug that both passed the findOne pre-check, exactly one succeeds and the other
\* is answered as the pre-check's ConflictError is.
C2_LoserGetsConflictError ==
  \A p, q \in Procs :
    ( /\ p # q
      /\ nOps = 2
      /\ proc[p].op = "create" /\ proc[p].pc = "done"
      /\ proc[q].op = "create" /\ proc[q].pc = "done"
      /\ proc[p].slug # NoSlug /\ proc[p].slug = proc[q].slug
      /\ proc[p].doc.id # 0 /\ proc[q].doc.id # 0
      /\ proc[p].doc.shortCode = proc[p].slug /\ proc[q].doc.shortCode = proc[q].slug
      /\ proc[p].kind = "ok" )
    => /\ proc[q].kind # "ok"
       /\ proc[q].kind = "CONFLICT"
       /\ errorHandler(proc[q].kind) = errorHandler("CONFLICT")

\* C3: with one request at a time, once updateUrl with a new originalUrl or
\* deleteUrl has returned successfully the cache has no entry for the code, and a
\* resolve made next returns the new originalUrl while the document is active and
\* unexpired (NotFound otherwise, and NotFound after a delete).
C3_NoStaleAfterMutation ==
  \A p \in Procs :
    /\ ( proc[p].op = "update" /\ proc[p].pc = "done" /\ proc[p].kind = "ok"
         /\ "originalUrl" \in proc[p].upd.keys )
       => /\ proc[p].code \notin CacheKeys(cache)
          /\ IF Live(proc[p].code)
             THEN ResolveNow(proc[p].code) =
                    [ kind |-> "ok", url |-> proc[p].upd.originalUrl ]
             ELSE ResolveNow(proc[p].code).kind = "NOT_FOUND"
    /\ ( proc[p].op = "delete" /\ proc[p].pc = "done" /\ proc[p].kind = "ok" )
       => /\ proc[p].code \notin CacheKeys(cache)
          /\ ResolveNow(proc[p].code).kind = "NOT_FOUND"

\* An update that changed the target of a code whose old target was in the cache
\* when it invalidated, the document still being active and unexpired.
C3_Witness ==
  \E p \in Procs :
    /\ proc[p].op = "update" /\ proc[p].pc = "done" /\ proc[p].kind = "ok"
    /\ "originalUrl" \in proc[p].upd.keys
    /\ proc[p].exists
    /\ proc[p].data.originalUrl # proc[p].upd.originalUrl
    /\ Live(proc[p].code)

\* The target the mutation of process q replaced or removed.
PreMutationData(q) == IF proc[q].op = "update" THEN proc[q].data ELSE urlDataOf(proc[q].doc)

\* C4 (as claimed): once a resolve and an updateUrl or deleteUrl of the same code
\* have both finished, the cache does not hold the target the mutation replaced.
C4_NoStaleAfterRace ==
  \A p, q \in Procs :
    ( /\ proc[p].op = "resolve" /\ proc[p].pc = "done"
      /\ proc[q].op \in {"update", "delete", "deleteGuest"}
      /\ proc[q].pc = "done" /\ proc[q].kind = "ok"
      /\ proc[q].code = proc[p].code
      /\ proc[q].op = "update" => proc[q].doc.originalUrl # proc[q].data.originalUrl )
    => ~ \E i \in 1..Len(cache) :
           /\ cache[i].key = proc[q].code
           /\ cache[i].data = PreMutationData(q)

\* C5 (as claimed): between operations every code in the cache has a document in
\* the store.
C5_CachedCodesAreStored ==
  (\A p \in Procs : ~InFlight(p)) => \A key \in CacheKeys(cache) : Exists(store, key)

\* C6 (as claimed): a resolve never returns the target of a document whose
\* expiresAt is earlier than the clock, also when it is served from the cache.
C6_NeverServesExpired ==
  [][ \A p \in Procs :
        ( /\ proc'[p] # proc[p]
          /\ proc'[p].op = "resolve" /\ proc'[p].pc = "done" /\ proc'[p].kind = "ok" )
        => ~ \E r \in store : r.id = proc'[p].data.id /\ Expired(r, now) ]_vars

\* C7 (as claimed): a resolve that finds an active document past its expiresAt
\* ends with an error whose kind is not the kind of the not-found outcome.
C7_ExpiredIsNotNotFound ==
  \A p \in Procs :
    ( /\ proc[p].op = "resolve" /\ proc[p].pc = "done"
      /\ proc[p].doc # NoDoc /\ proc[p].kind # "ok" )
    => proc[p].kind # FillOutcome(NoDoc, now).kind

\* C8: the code generateUniqueShortCode returns was answered "does not exist" by
\* checkExists and is not in the existing set, unless all maxRetries draws
\* collided: then the code is two characters longer and maxRetries warnings
\* were logged.
C8_ReturnedCodeIsFree ==
  gen.pc = "returned" =>
    \/ /\ ~gen.exists
       /\ gen.code \notin gen.existing
       /\ Len(gen.code) = shortCodeLength
       /\ gen.warns < maxRetries
    \/ /\ gen.warns = maxRetries
       /\ gen.i = maxRetries
       /\ Len(gen.code) = shortCodeLength + 2

\* A code returned after collisions with existing codes.
C8_Witness ==
  /\ gen.pc = "returned"
  /\ gen.warns > 0 /\ gen.warns < maxRetries
  /\ gen.existing # {}
  /\ gen.code \notin gen.existing

\* C9: with one request at a time, createUrl with a valid custom slug that is a
\* shortCode of the store ends with ConflictError, and no step of it changes the
\* store or the cache; with a slug not in the store it succeeds and saves a
\* document whose shortCode is the slug.
C9_CustomSlugConflict ==
  [][ \A p \in Procs :
        ( /\ proc'[p] # proc[p]
          /\ proc'[p].op = "create"
          /\ proc'[p].slug # NoSlug /\ isValidSlug(proc'[p].slug)
          /\ isValidUrl(proc'[p].url) )
        => /\ cache' = cache
           /\ proc'[p].pc = "c_found" =>
                /\ store' = store
                /\ (proc'[p].doc # NoDoc) = Exists(store, proc'[p].slug)
           /\ ( proc[p].pc = "c_found" /\ proc[p].doc # NoDoc ) =>
                /\ proc'[p].pc = "done" /\ proc'[p].kind = "CONFLICT"
                /\ store' = store
           /\ ( proc[p].pc = "c_found" /\ proc[p].doc = NoDoc ) =>
                /\ proc'[p].pc = "c_save" /\ store' = store
           /\ proc[p].pc = "c_save" =>
                /\ proc'[p].pc = "done" /\ proc'[p].kind = "ok"
                /\ \E r \in store' :
                     /\ r.shortCode = proc'[p].slug
                     /\ store' = store \cup {r} /\ r \notin store ]_vars

\* A create refused because its slug was taken, while the cache held an entry.
C9_Witness ==
  \E p \in Procs :
    /\ proc[p].op = "create" /\ proc[p].pc = "done" /\ proc[p].kind = "CONFLICT"
    /\ Exists(store, proc[p].slug)
    /\ Len(cache) > 0

\* C10: the document a create saves has expiresAt = its creation time plus 7 days
\* when the owner is a guest, whatever expiresAt was passed, and for an
\* authenticated owner the expiresAt passed, or none when none was passed.
C10_StoredExpiration ==
  [][ \A p \in Procs :
        ( proc[p].pc = "c_save" /\ proc'[p].pc = "done" /\ proc'[p].kind = "ok" )
        => \E r \in store' \ store :
             /\ r.id = proc[p].doc.id
             /\ ( proc[p].guest # NoId /\ proc[p].user = NoId )
                  => r.expiresAt = r.createdAt + 7 * 24
             /\ ( proc[p].user # NoId )
                  => r.expiresAt = proc[p].exp ]_vars

\* A guest's create that passed an expiresAt of its own and was saved with the
\* seven-day expiry.
C10_Witness ==
  \E p \in Procs :
    /\ proc[p].op = "create" /\ proc[p].pc = "done" /\ proc[p].kind = "ok"
    /\ proc[p].guest # NoId /\ proc[p].user = NoId /\ proc[p].exp # NoDate
    /\ \E r \in store : r.id = proc[p].doc.id /\ r.expiresAt # proc[p].exp

\* A step that is a call of a UrlCache method by the caller, and the call made.
CacheCall(op) == nOps' = nOps + 1 /\ proc'["p1"].op = op

\* C11: a set gives its entry the expiry now + ttl; a get of an entry at a time
\* later than that expiry returns absent and removes the entry, whether or not
\* cleanup ran before; and no step but a set of the code changes the expiry of
\* an entry that stays in the cache, a get that hits included.
C11_ExpiredGetIsAbsent ==
  [][ LET key == proc'["p1"].code
      IN  /\ CacheCall("cache.set") =>
               /\ key \in CacheKeys(cache')
               /\ CacheEntry(cache', key).expiresAt = now + ttl
          /\ CacheCall("cache.get") =>
               /\ ( key \in CacheKeys(cache) /\ now > CacheEntry(cache, key).expiresAt )
                    => /\ proc'["p1"].data = NoData
                       /\ key \notin CacheKeys(cache')
               /\ proc'["p1"].data # NoData =>
                    /\ key \in CacheKeys(cache)
                    /\ now <= CacheEntry(cache, key).expiresAt
          /\ \A k \in CacheKeys(cache) \cap CacheKeys(cache') :
               ~( CacheCall("cache.set") /\ k = key )
                 => CacheEntry(cache', k).expiresAt = CacheEntry(cache, k).expiresAt ]_vars

\* A get found an entry the caller had set past its expiry, returned absent and
\* removed it; an earlier get of an entry had hit.
C11_Witness ==
  /\ proc["p1"].op = "cache.get"
  /\ proc["p1"].n >= 1
  /\ proc["p1"].data = NoData
  /\ proc["p1"].code \in proc["p1"].codes
  /\ proc["p1"].code \notin CacheKeys(cache)
  /\ \E i \in 1..Len(cache) : cache[i].hits > 1

\* C12 (as claimed): once the caller has set maxSize + 1 distinct codes, each
\* once, with gets in between, the cache holds exactly maxSize entries.
C12_FullAfterDistinctSets ==
  ( /\ proc["p1"].i = maxSize + 1
    /\ Cardinality(proc["p1"].codes) = maxSize + 1 )
  => Len(cache) = maxSize

\* C12 (amended): the same as long as the clock has not passed the expiry of
\* any entry set (an entry past its expiry is removed by a get of it or by
\* cleanup); and a set of a code not in the cache, made when the cache holds
\* maxSize entries, removes exactly one entry, whose lastAccess is the least of
\* the entries present, lastAccess being the time of the entry's set or of its
\* latest get that hit.
C12_EvictsLeastRecentlyAccessed ==
  [][ LET key == proc'["p1"].code
      IN  /\ ( /\ proc'["p1"].i = maxSize + 1
               /\ Cardinality(proc'["p1"].codes) = maxSize + 1
               /\ now' <= proc'["p1"].exp )
             => Len(cache') = maxSize
          /\ ( CacheCall("cache.set") /\ key \notin CacheKeys(cache)
               /\ Len(cache) = maxSize )
             => \E v \in 1..Len(cache) :
                  /\ \A j \in 1..Len(cache) : cache[v].lastAccess <= cache[j].lastAccess
                  /\ CacheKeys(cache') = (CacheKeys(cache) \ {cache[v].key}) \cup {key}
                  /\ Len(cache') = maxSize
                  /\ \A k \in CacheKeys(cache) \ {cache[v].key} :
                       CacheEntry(cache', k) = CacheEntry(cache, k)
          /\ CacheCall("cache.set") => CacheEntry(cache', key).lastAccess = now
          /\ ( CacheCall("cache.get") /\ proc'["p1"].data # NoData )
               => CacheEntry(cache', key).lastAccess = now
          /\ \A k \in CacheKeys(cache) \cap CacheKeys(cache') :
               ~( (CacheCall("cache.set") \/ CacheCall("cache.get")) /\ k = key )
                 => CacheEntry(cache', k).lastAccess = CacheEntry(cache, k).lastAccess ]_vars

\* The last of maxSize + 1 distinct sets evicted an entry, and an entry older
\* than the evicted one's successor survived because a get at a later clock had
\* refreshed its lastAccess.
C12_Witness ==
  /\ proc["p1"].op = "cache.set"
  /\ proc["p1"].i = maxSize + 1
  /\ Cardinality(proc["p1"].codes) = maxSize + 1
  /\ now <= proc["p1"].exp
  /\ Len(cache) = maxSize
  /\ cache[1].lastAccess > cache[1].expiresAt - ttl
  /\ cache[Len(cache)].key = proc["p1"].code

\* C13: in every state the cache reaches, cleanup removes exactly the entries
\* whose expiresAt is earlier than the clock, leaves the others as they are and
\* in their order, and a second cleanup at the same clock removes nothing.
C13_CleanupIdempotent ==
  LET c1 == cleanup(cache, now)
      c2 == cleanup(c1, now)
  IN  /\ c2 = c1
      /\ CacheKeys(c1) = { k \in CacheKeys(cache) : ~(CacheEntry(cache, k).expiresAt < now) }
      /\ Len(c1) = Cardinality(CacheKeys(c1))
      /\ \A k \in CacheKeys(c1) : CacheEntry(c1, k) = CacheEntry(cache, k)
      /\ \A i, j \in 1..Len(c1) :
           i < j => CacheIndex(cache, c1[i].key) < CacheIndex(cache, c1[j].key)

\* The cache holds an entry past its expiry, which cleanup removes, next to one
\* that cleanup keeps.
C13_Witness ==
  /\ cleanup(cache, now) # cache
  /\ cleanup(cache, now) # << >>
  /\ proc["p1"].op = "cache.set"

\* The caller of an update, delete or guest delete, as the query names it.
CallerOwns(q, r) ==
  IF q.op = "deleteGuest" THEN r.guestId = q.guest ELSE r.userId = q.user

\* C14: with one request at a time, updateUrl, deleteUrl and deleteGuestUrl
\* called for a code whose document belongs to someone else, or for a code with
\* no document, load nothing, end with NotFoundError "URL not found or access
\* denied" in both cases alike, and no step of them changes the store or the cache.
C14_NonOwnerGetsNotFound ==
  [][ \A p \in Procs :
        ( /\ proc'[p] # proc[p]
          /\ proc'[p].op \in {"update", "delete", "deleteGuest"} )
        => /\ ( /\ proc'[p].pc \in {"u_found", "d_deleted"}
                /\ ~ \E r \in store : r.shortCode = proc'[p].code /\ CallerOwns(proc'[p], r) )
              => /\ proc'[p].doc = NoDoc
                 /\ store' = store /\ cache' = cache
           /\ ( proc[p].pc \in {"u_found", "d_deleted"} /\ proc[p].doc = NoDoc )
              => /\ proc'[p].pc = "done"
                 /\ proc'[p].kind = "NOT_FOUND"
                 /\ proc'[p].msg = "URL not found or access denied"
                 /\ errorHandler(proc'[p].kind) = <<404, "NOT_FOUND">>
                 /\ store' = store /\ cache' = cache ]_vars

\* An update by a user who does not own the document of the code ended with
\* NotFoundError while the document was stored and its code cached.
C14_Witness ==
  \E p \in Procs :
    /\ proc[p].op = "update" /\ proc[p].pc = "done" /\ proc[p].kind = "NOT_FOUND"
    /\ \E r \in store : r.shortCode = proc[p].code /\ r.userId # proc[p].user
    /\ proc[p].code \in CacheKeys(cache)

\* The fields in which two versions of a document differ.
FieldsChanged(r1, r2) == { f \in DOMAIN r1 : r1[f] # r2[f] }

\* C15: no step changes the shortCode of a stored document; and the save of an
\* updateUrl, whatever keys its updates object has (shortCode, customSlug,
\* userId and clicks included), changes no field of the document other than
\* originalUrl, isActive and expiresAt and changes no other document.
C15_ShortCodeImmutable ==
  [][ /\ \A r1 \in store, r2 \in store' : r1.id = r2.id => r2.shortCode = r1.shortCode
      /\ \A p \in Procs :
           ( proc[p].pc = "u_found" /\ proc'[p].pc = "u_saved" )
           => /\ \A r1 \in store :
                   \E r2 \in store' :
                     /\ r2.id = r1.id
                     /\ r1.id # proc[p].doc.id => r2 = r1
                     /\ FieldsChanged(r1, r2) \subseteq {"originalUrl", "isActive", "expiresAt"}
              /\ Cardinality(store') = Cardinality(store)
              /\ proc'[p].doc.shortCode = proc[p].doc.shortCode ]_vars

\* An update whose updates object named a different shortCode and a new
\* originalUrl succeeded: the target changed, the code did not.
C15_Witness ==
  \E p \in Procs :
    /\ proc[p].op = "update" /\ proc[p].pc = "done" /\ proc[p].kind = "ok"
    /\ "shortCode" \in proc[p].upd.keys
    /\ proc[p].upd.shortCode # proc[p].code
    /\ \E r \in store :
         /\ r.shortCode = proc[p].code
         /\ r.originalUrl = proc[p].upd.originalUrl
         /\ r.originalUrl # proc[p].data.originalUrl
    /\ ~ Exists(store, proc[p].upd.shortCode)

\* C16 (as claimed): a stored document past its expiresAt stays past it for as
\* long as it is stored (no step moves a record from Expired back to Active),
\* and a document that left the store never returns to it.
C16_ExpiredNeverActiveAgain ==
  [][ /\ \A r1 \in store, r2 \in store' :
           ( r1.id = r2.id /\ Expired(r1, now) ) => Expired(r2, now')
      /\ \A r2 \in store' :
           ( ~ HasId(store, r2.id) ) => r2.id >= nextId - 1 ]_vars

\* C17: a resolve that succeeds is answered in the step that issues the
\* recordClick call, while that call has not reached the store yet; and no step
\* of a recordClick call, its failure included, changes the outcome of any
\* handler: the resolve stays answered with the same target, and a failed call
\* is only logged.
C17_ClickIsFireAndForget ==
  [][ /\ \A p \in Procs :
           ( /\ proc'[p] # proc[p]
             /\ proc'[p].op = "resolve" /\ proc'[p].pc = "done" /\ proc'[p].kind = "ok" )
           => /\ \E c \in pending' \ pending :
                   c.by = p /\ c.code = proc'[p].code /\ c.pc = "k_find"
              /\ proc'[p].data.originalUrl # NoData.originalUrl
      /\ ( pending \ pending' # {} )
           => /\ proc' = proc
              /\ cache' = cache
              /\ \A c \in pending' \ pending :
                   c.pc = "logged" =>
                     /\ proc[c.by].pc = "done" => proc'[c.by] = proc[c.by]
                     /\ store' = store ]_vars

\* A recordClick call failed because the document was removed after it was
\* loaded; the resolve that issued it stays answered with its target.
C17_Witness ==
  \E c \in pending :
    /\ c.pc = "logged"
    /\ proc[c.by].op = "resolve" /\ proc[c.by].pc = "done" /\ proc[c.by].kind = "ok"
    /\ proc[c.by].code = c.code
    /\ proc[c.by].data.originalUrl = UrlA
    /\ ~ Exists(store, c.code)

C19_RateLimited ==
  [][ /\ \A key \in DOMAIN served' : served'[key].passed <= limiter.max
      /\ \A key \in DOMAIN rateLimitStore' :
           ( key \notin DOMAIN rateLimitStore \/ rateLimitStore'[key] # rateLimitStore[key] )
           => LET open == key \in DOMAIN served /\ now <= served[key].start + limiter.windowMs
                  before == IF open THEN served[key].passed ELSE 0
              IN  /\ served'[key].status = IF before < limiter.max THEN 200 ELSE 429
                  /\ served'[key].passed = IF before < limiter.max THEN before + 1 ELSE before
      /\ <<limiter.windowMs, limiter.max>> =
           CASE limiter.name = "auth" -> <<15, 10>>
             [] limiter.name = "url" -> <<1, 30>>
             [] limiter.name = "guest" -> <<1, 10>> ]_vars

\* One key of authenticated creation has had its 30 requests passed on and the
\* next answered 429, while another key is in a window that started later and
\* has its requests passed on.
C19_Witness ==
  /\ limiter.name = "url"
  /\ \E k1, k2 \in DOMAIN served :
       /\ k1 # k2
       /\ served[k1].passed = 30 /\ served[k1].status = 429
       /\ served[k2].start > limiter.windowMs /\ served[k2].status = 200
       /\ served[k2].passed > 1

SweepFailed == sched'.caught = sched.caught + 1

\* C21: the process never exits because of the sweep, and a run of the sweep in
\* which the store fails does not clear the interval: the failing cleanupExpiredUrls leaves the
\* collection as it was and reports 0, the run goes on to its next task, and
\* once a failure has happened every later hour still finds the callback due
\* with nothing in its way, and the callback starts a new run.
C21_SweepFailureIsCaught ==
  [][ /\ sched'.alive
      /\ SweepFailed => sched'.interval
      /\ ( SweepFailed /\ sched.pc = "cleanupExpired" )
            => /\ store' = store
               /\ sched'.expiredUrls = 0
               /\ sched'.pc = "cleanupGuests"
      /\ ( sched.caught > 0 /\ now' = now + 1 )
            => sched'.alive /\ sched'.interval /\ sched'.due /\ sched'.pc = "idle"
      /\ ( sched.caught > 0 /\ sched.due /\ ~sched'.due )
            => sched'.pc = "setExpiration" /\ sched'.runs = sched.runs + 1 ]_vars

\* After a run in which the store failed once, a run of a later hour has
\* removed an expired document.
C21_Witness ==
  /\ sched.caught = 1
  /\ sched.runs >= 2
  /\ sched.pc = "cleanupGuests"
  /\ sched.expiredUrls >= 1
  /\ sched.alive /\ sched.interval
  /\ now = MaxSweepTime

\* C22: while the timer is set, an entry past its expiry does not stay in the
\* cache forever: it is removed, or a set gives the code a fresh entry, or
\* destroy clears the timer, whether or not the code is ever asked for again.
C22_ExpiredEntriesAreReclaimed ==
  \A key \in CacheCodes :
    ( key \in CacheKeys(cache) /\ now > CacheEntry(cache, key).expiresAt )
      ~> ( \/ key \notin CacheKeys(cache)
           \/ ~(now > CacheEntry(cache, key).expiresAt)
           \/ ~cleanupInterval )

\* The only call ever made was a set; its entry outlived its TTL and is gone,
\* the timer still set.
C22_Witness ==
  /\ nOps = 1
  /\ proc["p1"].op = "cache.set"
  /\ now > proc["p1"].setAt[proc["p1"].code] + ttl
  /\ cache = << >>
  /\ cleanupInterval

\* C28: after any sequence of get, set, invalidate, cleanup, clear and destroy
\* on a cache of capacity maxSize >= 1, the cache holds at most maxSize entries,
\* one per code, and each entry's expiresAt is the clock of the last set of its
\* code plus the TTL.
C28_SizeAndExpiryInvariant ==
  /\ Len(cache) <= maxSize
  /\ \A i, j \in 1..Len(cache) : cache[i].key = cache[j].key => i = j
  /\ \A i \in 1..Len(cache) :
       /\ cache[i].key \in DOMAIN proc["p1"].setAt
       /\ cache[i].expiresAt = proc["p1"].setAt[cache[i].key] + ttl

\* More codes have been set than the cache has room for, the last of them at a
\* later clock than the first, and the cache is full.
C28_Witness ==
  /\ Cardinality(DOMAIN proc["p1"].setAt) > maxSize
  /\ Len(cache) = maxSize
  /\ proc["p1"].op = "cache.set"
  /\ \E k \in DOMAIN proc["p1"].setAt : proc["p1"].setAt[k] < now

\* C24: a set made when the cache holds maxSize entries overwrites the entry of
\* a code already cached (fresh data, expiry and access time) and removes no
\* other entry, the size staying at maxSize; for a code not cached it removes
\* exactly one entry first.
C24_SetEvictsOnlyForNewCode ==
  [][ LET key == proc'["p1"].code
      IN  ( CacheCall("cache.set") /\ Len(cache) = maxSize )
            => /\ Len(cache') = maxSize
               /\ CacheEntry(cache', key).expiresAt = now + ttl
               /\ CacheEntry(cache', key).lastAccess = now
               /\ IF key \in CacheKeys(cache)
                  THEN CacheKeys(cache') = CacheKeys(cache)
                  ELSE Cardinality(CacheKeys(cache) \ CacheKeys(cache')) = 1 ]_vars

\* C23: generateUniqueShortCode returns; it asks checkExists at most maxRetries
\* times, once per draw of the configured length; a draw answered "does not
\* exist" is returned at once and a draw answered "exists" is not; after
\* maxRetries draws that exist it returns one code two characters longer, for
\* which checkExists is not asked.
C23_GeneratorTerminates ==
  /\ <>(gen.pc = "returned")
  /\ [](gen.warns <= maxRetries /\ gen.i = gen.warns)
  /\ [][ /\ gen.pc = "loop"
           => /\ Len(gen'.code) = shortCodeLength
              /\ gen'.exists = (gen'.code \in gen.existing)
              /\ gen'.pc = "returned" <=> ~gen'.exists
              /\ gen'.warns = IF gen'.exists THEN gen.warns + 1 ELSE gen.warns
              /\ gen'.pc = "fallback" <=> (gen'.exists /\ gen'.warns = maxRetries)
         /\ gen.pc = "fallback"
           => /\ gen.warns = maxRetries
              /\ gen'.pc = "returned"
              /\ Len(gen'.code) = shortCodeLength + 2
              /\ gen'.exists = gen.exists /\ gen'.warns = gen.warns ]_vars

\* All maxRetries draws existed, and the longer code returned exists as well.
C23_Witness ==
  /\ gen.pc = "returned"
  /\ gen.warns = maxRetries
  /\ Len(gen.code) = shortCodeLength + 2
  /\ gen.code \in gen.existing

\* A step of handler p, which runs the operation op.
StepOf(p, op) == proc'[p] # proc[p] /\ proc'[p].op = op

\* The step in which p's resolve ends with the error kind.
ResolveEnds(p, kind) ==
  StepOf(p, "resolve") /\ proc'[p].pc = "done" /\ proc'[p].kind = kind

\* No document gets another originalUrl, isActive or expiresAt in the step.
TargetsUntouched ==
  \A r \in store : \A r2 \in store' :
    r2.id = r.id => /\ r2.originalUrl = r.originalUrl
                    /\ r2.isActive = r.isActive
                    /\ r2.expiresAt = r.expiresAt

\* C25 (as claimed): no step of createUrl changes the cache; a resolve that
\* ends in an error changed the cache in none of its steps; a resolve that
\* missed the cache and redirects, the code's record being live and active,
\* leaves an entry for the code holding that record's originalUrl; no step of a
\* resolve, and no step of
\* the click recording it starts, changes a record's originalUrl, isActive or
\* expiresAt.
C25_CacheFilledOnlyByResolve ==
  [][ /\ \A p \in Procs :
           /\ StepOf(p, "create") => cache' = cache
           /\ ResolveEnds(p, "NOT_FOUND") => cache' = cache /\ ~proc'[p].exists
           /\ ( StepOf(p, "resolve") /\ proc'[p].pc = "r_find" /\ ~proc'[p].exists )
                => cache' = cache
           /\ StepOf(p, "resolve") /\ proc'[p].pc = "r_found" => cache' = cache
           /\ ( ResolveEnds(p, "ok") /\ proc[p].pc = "r_found" /\ Live(proc'[p].code) )
                => /\ proc'[p].code \in CacheKeys(cache')
                   /\ \E r \in store :
                        /\ r.shortCode = proc'[p].code
                        /\ CacheEntry(cache', proc'[p].code).data = urlDataOf(r)
           /\ StepOf(p, "resolve") => store' = store
      /\ pending' # pending => TargetsUntouched ]_vars

\* C25 (amended): the same, except that the get a resolve starts with removes
\* the code's own entry when that entry is past its expiry, whatever the
\* resolve ends in; nothing else in the cache changes in a resolve that ends in
\* an error.
C25_CacheFilledOnlyByLiveResolve ==
  [][ /\ \A p \in Procs :
           /\ StepOf(p, "create") => cache' = cache
           /\ ResolveEnds(p, "NOT_FOUND") => cache' = cache
           /\ ( StepOf(p, "resolve") /\ proc'[p].pc = "r_find" )
                => IF proc'[p].exists
                   THEN /\ now > CacheEntry(cache, proc'[p].code).expiresAt
                        /\ cache' = CacheDelete(cache, proc'[p].code)
                   ELSE cache' = cache
           /\ StepOf(p, "resolve") /\ proc'[p].pc = "r_found" => cache' = cache
           /\ ( ResolveEnds(p, "ok") /\ proc[p].pc = "r_found" /\ Live(proc'[p].code) )
                => /\ proc'[p].code \in CacheKeys(cache')
                   /\ \E r \in store :
                        /\ r.shortCode = proc'[p].code
                        /\ CacheEntry(cache', proc'[p].code).data = urlDataOf(r)
           /\ StepOf(p, "resolve") => store' = store
      /\ pending' # pending => TargetsUntouched ]_vars

\* A resolve whose get removed the code's entry, past its expiry, has ended in
\* NotFound, the record being expired and still stored, after an earlier resolve
\* had filled the cache and its click had been recorded.
C25_Witness ==
  /\ proc["p1"].op = "resolve" /\ proc["p1"].pc = "done"
  /\ proc["p1"].kind = "NOT_FOUND" /\ proc["p1"].exists
  /\ \E r \in store : r.shortCode = proc["p1"].code /\ r.clicks = 1 /\ Expired(r, now)
  /\ cache = << >>

\* C26: once the owner's updateUrl with isActive = false has returned, and while
\* the record stays inactive, a getByShortCode of the code fails with NotFound,
\* also when the code was cached before the update.
C26_InactiveNeverResolved ==
  \A p \in Procs :
    ( /\ proc[p].op = "update" /\ proc[p].pc = "done" /\ proc[p].kind = "ok"
      /\ proc[p].upd.keys = {"isActive"} /\ ~proc[p].upd.isActive
      /\ \E r \in store : r.shortCode = proc[p].code /\ ~r.isActive )
    => ResolveNow(proc[p].code).kind = "NOT_FOUND"

\* How an updateUrl of the code by the user, made now with nothing else in
\* flight, ends: its lookup, then its test of the answer.
UpdateNow(code, userId) ==
  IF FindOneOfUser(store, code, userId) = NoDoc THEN "NOT_FOUND" ELSE "ok"

\* How createUrl's check of a valid custom slug, made now, ends.
SlugCheckNow(slug) ==
  IF FindOne(store, slug) # NoDoc THEN "CONFLICT" ELSE "ok"

\* C27: a stored record whose expiresAt is earlier than the clock is absent for
\* the registry: updateUrl of its code by its owner ends in NotFound, and
\* createUrl with its shortCode as the custom slug is not refused as a conflict.
C27_ExpiredIsAbsentForRegistry ==
  \A r \in store :
    Expired(r, now) =>
      /\ r.userId # NoId => UpdateNow(r.shortCode, r.userId) = "NOT_FOUND"
      /\ SlugCheckNow(r.shortCode) # "CONFLICT"

\* C29: once both handlers have redirected for the same code and both of their
\* click recordings have completed without error, the code's record, created
\* with clicks = 0 and still stored, counts two clicks.
C29_NoClickLost ==
  ( /\ \A p \in Procs :
         /\ proc[p].op = "resolve" /\ proc[p].pc = "done" /\ proc[p].kind = "ok"
         /\ proc[p].code = SlugPromo
    /\ pending = {} )
  => \A r \in store : r.shortCode = SlugPromo => r.clicks = Cardinality(Procs)

\* A call of otpService by the caller, with the operation op.
OtpCall(op) == nOps' = nOps + 1 /\ proc'["p1"].op = op

\* C30: verifyOTP answers valid only when the code sent is the OTP last stored
\* or resent for the email, none of the verify calls since that OTP was issued
\* was answered valid, fewer than 5 verify calls were made since, and the clock
\* is not past the issue plus 10 minutes; a verify call that meets all of this
\* is answered valid; a request or a successful resend leaves an entry with the
\* new code, no attempts and an expiry 10 minutes ahead.
C30_OtpVerifiedAtMostOnce ==
  [][ LET q == proc["p1"]
          q2 == proc'["p1"]
          key == toLowerCase(q2.url[1])
          fresh == /\ q.code # NoSlug
                   /\ q2.slug = q.code
                   /\ ~q.exists
                   /\ q.i < OtpMaxAttempts
                   /\ now <= q.exp + OtpLifetime
      IN  /\ OtpCall("otp.verify") => (q2.kind = "valid" <=> fresh)
          /\ ( OtpCall("otp.verify") /\ q2.kind = "valid" ) => key \notin DOMAIN otpStore'
          /\ ( OtpCall("otp.request")
               \/ (OtpCall("otp.resend") /\ key \in DOMAIN otpStore) )
               => /\ key \in DOMAIN otpStore'
                  /\ otpStore'[key].otp = q2.code[1]
                  /\ otpStore'[key].attempts = 0
                  /\ otpStore'[key].expiresAt = now + OtpLifetime
          /\ ( OtpCall("otp.resend") /\ key \notin DOMAIN otpStore )
               => q2.kind = "thrown" /\ otpStore' = otpStore ]_vars

\* The sixth verify call for an OTP, made in time with the right code after
\* five wrong ones, was answered invalid.
C30_Witness ==
  /\ proc["p1"].op = "otp.verify"
  /\ proc["p1"].kind = "invalid"
  /\ proc["p1"].slug = proc["p1"].code
  /\ proc["p1"].i = OtpMaxAttempts + 1
  /\ ~proc["p1"].exists
  /\ now <= proc["p1"].exp + OtpLifetime

====
